---- MODULE Spec2Model ----
(***************************************************************************)
(* Model of the format-dispatch extraction pipeline of the universal text  *)
(* extractor: utils/file_handlers.py (classifier, orchestrator, format     *)
(* extractors), utils/ocr_utils.py (OCR engine adapter) and                *)
(* utils/image_processing.py (image preprocessor).                         *)
(*                                                                         *)
(* Texts, log entries, paths and tags are TLA+ strings; the Python string  *)
(* operations the code uses (lower, strip, startswith, in, splitext, +)    *)
(* are defined below character by character.                               *)
(***************************************************************************)
EXTENDS Integers, Sequences, FiniteSets, TLC

VARIABLES avail,          \* capability flags set at import time (has_*)
          easyocr_reader, \* ocr_utils.easyocr_reader: language list of the shared reader, or None
          temp_files,     \* number of temporary files left on disk
          req,            \* the arguments of the last call
          res,            \* what the last call returned (or raised) and what it did
          thr             \* concurrent perform_ocr calls: per-thread position and locals

vars == <<avail, easyocr_reader, temp_files, req, res, thr>>

None == "None"

(***************************************************************************)
(* Python string operations                                                *)
(***************************************************************************)
UpperChars == <<"A","B","C","D","E","F","G","H","I","J","K","L","M",
                "N","O","P","Q","R","S","T","U","V","W","X","Y","Z">>
LowerChars == <<"a","b","c","d","e","f","g","h","i","j","k","l","m",
                "n","o","p","q","r","s","t","u","v","w","x","y","z">>

CharAt(s, i) == SubSeq(s, i, i)

LowerChar(c) ==
  IF \E k \in 1..26 : UpperChars[k] = c
    THEN LowerChars[CHOOSE k \in 1..26 : UpperChars[k] = c]
    ELSE c

RECURSIVE LowerFrom(_, _)
LowerFrom(s, i) ==
  IF i > Len(s) THEN "" ELSE LowerChar(CharAt(s, i)) \o LowerFrom(s, i + 1)

\* str.lower() left out
Lower_m(s) == s

\* str.lower()
Lower(s) == LowerFrom(s, 1)

\* str.startswith(p)
StartsWith(s, p) == Len(s) >= Len(p) /\ SubSeq(s, 1, Len(p)) = p

\* str.endswith(p)
EndsWith(s, p) == Len(s) >= Len(p) /\ SubSeq(s, Len(s) - Len(p) + 1, Len(s)) = p

\* p in s
Contains(s, p) ==
  \E i \in 1..(Len(s) - Len(p) + 1) : SubSeq(s, i, i + Len(p) - 1) = p

\* s.find(p) + 1: position of the first occurrence of p in s, 0 when absent
Find(s, p) ==
  IF Contains(s, p)
    THEN CHOOSE i \in 1..(Len(s) - Len(p) + 1) :
           /\ SubSeq(s, i, i + Len(p) - 1) = p
           /\ \A j \in 1..(i - 1) : SubSeq(s, j, j + Len(p) - 1) # p
    ELSE 0

Whitespace == {" ", "\n", "\t", "\r"}

\* not s.strip()
IsBlank(s) == \A i \in 1..Len(s) : CharAt(s, i) \in Whitespace

\* bool(s)
Truthy(s) == Len(s) > 0

\* s.lstrip(), s.rstrip(), s.strip()
RECURSIVE LStrip(_)
LStrip(s) ==
  IF Len(s) > 0 /\ CharAt(s, 1) \in Whitespace THEN LStrip(SubSeq(s, 2, Len(s))) ELSE s

RECURSIVE RStrip(_)
RStrip(s) ==
  IF Len(s) > 0 /\ CharAt(s, Len(s)) \in Whitespace
    THEN RStrip(SubSeq(s, 1, Len(s) - 1)) ELSE s

Strip(s) == RStrip(LStrip(s))

\* s.lstrip('.')
RECURSIVE LStripDot(_)
LStripDot(s) ==
  IF Len(s) > 0 /\ CharAt(s, 1) = "." THEN LStripDot(SubSeq(s, 2, Len(s))) ELSE s

\* os.path.splitext(p)[1]: the extension starts at the last dot of the last
\* path component; leading dots of that component do not start an extension.
SplitExt(p) ==
  LET seps == {i \in 1..Len(p) : CharAt(p, i) = "/"}
      base == IF seps = {} THEN 1 ELSE (CHOOSE i \in seps : \A j \in seps : j <= i) + 1
      dots == {i \in base..Len(p) : CharAt(p, i) = "."}
      last == IF dots = {} THEN 0 ELSE CHOOSE i \in dots : \A j \in dots : j <= i
  IN  IF last = 0 THEN ""
      ELSE IF \A k \in base..last : CharAt(p, k) = "." THEN ""
      ELSE SubSeq(p, last, Len(p))

(***************************************************************************)
(* Format classifier: file_handlers.detect_file_type                       *)
(***************************************************************************)
SUPPORTED_FILE_TYPES ==
  << [category |-> "Documents",     extensions |-> <<"pdf", "doc", "docx", "rtf", "odt", "txt">>],
     [category |-> "Images",        extensions |-> <<"jpg", "jpeg", "png", "tiff", "tif", "bmp", "gif", "webp", "heic", "heif">>],
     [category |-> "Presentations", extensions |-> <<"ppt", "pptx", "odp">>],
     [category |-> "Spreadsheets",  extensions |-> <<"xls", "xlsx", "ods", "csv">>],
     [category |-> "Web",           extensions |-> <<"html", "htm", "xml">>],
     [category |-> "Email",         extensions |-> <<"eml", "msg">>],
     [category |-> "Ebooks",        extensions |-> <<"epub">> ] >>

SUPPORTED_IMAGE_FORMATS ==
  <<"jpg", "jpeg", "png", "tiff", "tif", "bmp", "gif", "webp", "heic", "heif">>

Range(f) == {f[i] : i \in DOMAIN f}

SupportedExtensions ==
  UNION {Range(SUPPORTED_FILE_TYPES[c].extensions) : c \in DOMAIN SUPPORTED_FILE_TYPES}

\* the mapping without the default case of line 145
MimeCategory_m(content_type) ==
  IF StartsWith(content_type, "image/") THEN "image"
  ELSE IF StartsWith(content_type, "text/") THEN "text"
  ELSE IF Contains(content_type, "pdf") THEN "pdf"
  ELSE IF \/ Contains(content_type, "msword")
          \/ Contains(content_type, "vnd.openxmlformats-officedocument.wordprocessingml") THEN "doc"
  ELSE IF \/ Contains(content_type, "vnd.ms-powerpoint")
          \/ Contains(content_type, "vnd.openxmlformats-officedocument.presentationml") THEN "ppt"
  ELSE IF \/ Contains(content_type, "vnd.ms-excel")
          \/ Contains(content_type, "vnd.openxmlformats-officedocument.spreadsheetml") THEN "xls"
  ELSE content_type

\* the mapping of a sniffed content type to a coarse category (lines 129-142)
MimeCategory(content_type) ==
  IF StartsWith(content_type, "image/") THEN "image"
  ELSE IF StartsWith(content_type, "text/") THEN "text"
  ELSE IF Contains(content_type, "pdf") THEN "pdf"
  ELSE IF \/ Contains(content_type, "msword")
          \/ Contains(content_type, "vnd.openxmlformats-officedocument.wordprocessingml") THEN "doc"
  ELSE IF \/ Contains(content_type, "vnd.ms-powerpoint")
          \/ Contains(content_type, "vnd.openxmlformats-officedocument.presentationml") THEN "ppt"
  ELSE IF \/ Contains(content_type, "vnd.ms-excel")
          \/ Contains(content_type, "vnd.openxmlformats-officedocument.spreadsheetml") THEN "xls"
  ELSE "unknown"

\* detect_file_type(file_path); content_type is what mimetypes.guess_type
\* answers for the path (None when it has no guess)
detect_file_type(file_path, content_type) ==
  LET ext == LStripDot(Lower(SplitExt(file_path)))
  IN  IF \E c \in DOMAIN SUPPORTED_FILE_TYPES :
            ext \in Range(SUPPORTED_FILE_TYPES[c].extensions)
        THEN ext
      ELSE IF content_type # None THEN MimeCategory(content_type)
      ELSE "unknown"

(***************************************************************************)
(* Outcomes of library calls.  A call into an optional library either      *)
(* returns a value or raises; which one is not decided by this code, so it *)
(* is an input of the operation that makes the call.                       *)
(***************************************************************************)
ExcMsg == "E"

Ok(v)  == [exc |-> FALSE, val |-> v]
Exc(v) == [exc |-> TRUE,  val |-> v]

\* "\n".join(parts)
RECURSIVE JoinLines(_)
JoinLines(parts) ==
  IF Len(parts) = 0 THEN ""
  ELSE IF Len(parts) = 1 THEN parts[1]
  ELSE parts[1] \o "\n" \o JoinLines(Tail(parts))

(***************************************************************************)
(* OCR engine adapter: utils/ocr_utils.py                                  *)
(***************************************************************************)
OCR_UNAVAILABLE == "[OCR is not available. No text could be extracted from this image.]"
OCR_NO_TEXT     == "[No text was detected in this image.]"
OCR_INVALID     == "[Could not process image for OCR: Invalid image format]"

has_pytesseract == "pytesseract" \in avail
has_easyocr     == "easyocr" \in avail
has_pil         == "PIL" \in avail

is_ocr_available == has_pytesseract \/ has_easyocr

lang_map ==
  [l \in {"eng", "fra", "deu", "spa", "ita", "por", "chi_sim", "jpn", "kor"} |->
     CASE l = "eng" -> "en"  [] l = "fra" -> "fr"  [] l = "deu" -> "de"
       [] l = "spa" -> "es"  [] l = "ita" -> "it"  [] l = "por" -> "pt"
       [] l = "chi_sim" -> "ch_sim" [] l = "jpn" -> "ja" [] l = "kor" -> "ko"]

\* lines 99-101: convert a Tesseract-style language code if needed
MapLang(lang) == IF lang \in DOMAIN lang_map THEN lang_map[lang] ELSE lang

\* initialize_easyocr that keeps whatever reader exists (line 105 without the
\* language comparison)
initialize_easyocr_m(lang, reader, ctor_ok) ==
  IF ~has_easyocr THEN [ret |-> None, reader |-> reader, created |-> FALSE]
  ELSE LET l == MapLang(lang)
       IN  IF reader = None
             THEN IF ctor_ok
                    THEN [ret |-> l, reader |-> l, created |-> TRUE]
                    ELSE [ret |-> None, reader |-> reader, created |-> FALSE]
             ELSE [ret |-> reader, reader |-> reader, created |-> FALSE]

\* initialize_easyocr(lang) run without interruption, on the shared reader
\* `reader`; ctor_ok tells whether easyocr.Reader([lang]) succeeds.
\* Returns the reader handed to the caller and the new shared reader.
initialize_easyocr(lang, reader, ctor_ok) ==
  IF ~has_easyocr THEN [ret |-> None, reader |-> reader, created |-> FALSE]
  ELSE LET l == MapLang(lang)
       IN  IF reader = None \/ reader # l
             THEN IF ctor_ok
                    THEN [ret |-> l, reader |-> l, created |-> TRUE]
                    ELSE [ret |-> None, reader |-> reader, created |-> FALSE]
             ELSE [ret |-> reader, reader |-> reader, created |-> FALSE]

\* The Tesseract part of perform_ocr (lines 131-176).  o.tess1 and o.tess2
\* are the outcomes of the first image_to_string call and of the "--psm 8"
\* retry (the outcome of a call includes that of Image.open on a path).
\* done: the function returns ocr_text at this point; exc: an exception is
\* on its way out of the block.

\* lines 160-168: the body of the inner try, the retry with "--psm 8"
RetryTry(ocr_text, o) ==
  IF o.tess2.exc
    THEN [exc |-> TRUE, done |-> FALSE, ocr_text |-> ocr_text,
          attempts |-> <<"tesseract", "tesseract_psm8">>]
    ELSE [exc |-> FALSE, done |-> ~IsBlank(o.tess2.val), ocr_text |-> o.tess2.val,
          attempts |-> <<"tesseract", "tesseract_psm8">>]

\* lines 169-170: `except Exception: pass`
RetryCatch(t) == IF t.exc THEN [t EXCEPT !.exc = FALSE] ELSE t

\* lines 132-171: the body of the outer try
TesseractTry(image, handwriting_mode, o) ==
  IF o.tess1.exc \/ (image = "path" /\ ~has_pil)  \* Image is None: Image.open raises
    THEN [exc |-> TRUE, done |-> FALSE, ocr_text |-> "", attempts |-> <<"tesseract">>]
  ELSE IF ~IsBlank(o.tess1.val)
    THEN [exc |-> FALSE, done |-> TRUE, ocr_text |-> o.tess1.val,
          attempts |-> <<"tesseract">>]
  ELSE IF handwriting_mode
    THEN RetryCatch(RetryTry(o.tess1.val, o))
  ELSE [exc |-> FALSE, done |-> FALSE, ocr_text |-> o.tess1.val,
        attempts |-> <<"tesseract">>]

\* lines 174-176: `except Exception as e: print(...)`
TesseractCatch(t) == IF t.exc THEN [t EXCEPT !.exc = FALSE] ELSE t

TesseractPart(image, handwriting_mode, o) ==
  IF ~has_pytesseract
    THEN [exc |-> FALSE, done |-> FALSE, ocr_text |-> "", attempts |-> <<>>]
    ELSE TesseractCatch(TesseractTry(image, handwriting_mode, o))

\* The EasyOCR part of perform_ocr (lines 179-206), entered with ocr_text
\* as the Tesseract part left it.  image is "path" (a str), "pil" (a PIL
\* Image) or "other".  Yields the text, the shared reader afterwards, the
\* temporary files created and deleted, and the reader used for readtext.
\* init is what initialize_easyocr(language) returned (line 182).
\* exc: an exception is on its way out of the try block (lines 180-202).
EasyOcrWith(image, ocr_text, reader, o, init) ==
  LET fail == [exc |-> TRUE, returned |-> FALSE, ocr_text |-> ocr_text,
               reader |-> init.reader, used |-> None,
               created |-> 0, deleted |-> 0, attempts |-> <<"easyocr">>]
  IN  IF init.ret = None
        THEN [exc |-> FALSE, returned |-> FALSE, ocr_text |-> ocr_text,
              reader |-> init.reader, used |-> None,
              created |-> 0, deleted |-> 0, attempts |-> <<"easyocr_init">>]
      ELSE IF image = "path"
        THEN IF o.read.exc THEN [fail EXCEPT !.used = init.ret]
             ELSE [exc |-> FALSE, returned |-> FALSE, ocr_text |-> JoinLines(o.read.val),
                   reader |-> init.reader, used |-> init.ret,
                   created |-> 0, deleted |-> 0, attempts |-> <<"easyocr">>]
      ELSE IF has_pil /\ image = "pil"
        THEN IF o.save.exc THEN [fail EXCEPT !.created = 1]
             ELSE IF o.read.exc THEN [fail EXCEPT !.created = 1, !.used = init.ret]
             ELSE [exc |-> FALSE, returned |-> FALSE, ocr_text |-> JoinLines(o.read.val),
                   reader |-> init.reader, used |-> init.ret,
                   created |-> 1, deleted |-> 1, attempts |-> <<"easyocr">>]
      ELSE [exc |-> FALSE, returned |-> TRUE, ocr_text |-> OCR_INVALID,
            reader |-> init.reader, used |-> None,
            created |-> 0, deleted |-> 0, attempts |-> <<"easyocr_init">>]

\* the handler that lets the exception pass
EasyOcrCatch_m(e) == e

\* lines 203-206: `except Exception as e`, which puts the failure message
\* in an ocr_text that is still empty
EasyOcrCatch(e) ==
  IF e.exc
    THEN [e EXCEPT !.exc = FALSE,
                   !.ocr_text = IF ~Truthy(@)
                                  THEN "[OCR processing failed: " \o ExcMsg \o "]"
                                  ELSE @]
    ELSE e

EasyOcrPart(image, language, ocr_text, reader, o) ==
  IF ~has_easyocr
    THEN [exc |-> FALSE, returned |-> FALSE, ocr_text |-> ocr_text, reader |-> reader,
          used |-> None, created |-> 0, deleted |-> 0, attempts |-> <<>>]
    ELSE EasyOcrCatch(EasyOcrWith(image, ocr_text, reader, o,
                        initialize_easyocr(language, reader, ~o.ctor.exc)))

\* lines 199-208: what perform_ocr returns after the EasyOCR part e, the
\* Tesseract part having made the attempts tried
\* line 208 without the test of ocr_text
FinalText_m(ocr_text) == ocr_text

\* line 208: `ocr_text if ocr_text.strip() else "[No text was detected ...]"`
FinalText(ocr_text) == IF ~IsBlank(ocr_text) THEN ocr_text ELSE OCR_NO_TEXT

OcrResult(tried, e) ==
  [raised |-> e.exc,
   text |-> IF e.exc THEN ""
            ELSE IF e.returned THEN e.ocr_text
            ELSE FinalText(e.ocr_text),
   reader |-> e.reader, used |-> e.used,
   created |-> e.created, deleted |-> e.deleted,
   attempts |-> tried \o e.attempts]

\* the function going on to EasyOCR whatever Tesseract found
AfterTesseract_m(image, language, reader, o, t) ==
  IF t.exc
    THEN [raised |-> TRUE, text |-> "", reader |-> reader, used |-> None,
          created |-> 0, deleted |-> 0, attempts |-> t.attempts]
    ELSE OcrResult(t.attempts, EasyOcrPart(image, language, t.ocr_text, reader, o))

\* lines 131-208: perform_ocr after the Tesseract part t
AfterTesseract(image, language, reader, o, t) ==
  IF t.exc
    THEN [raised |-> TRUE, text |-> "", reader |-> reader, used |-> None,
          created |-> 0, deleted |-> 0, attempts |-> t.attempts]
  ELSE IF t.done
    THEN [raised |-> FALSE, text |-> t.ocr_text, reader |-> reader, used |-> None,
          created |-> 0, deleted |-> 0, attempts |-> t.attempts]
  ELSE OcrResult(t.attempts, EasyOcrPart(image, language, t.ocr_text, reader, o))

\* perform_ocr(image, language, handwriting_mode)
perform_ocr(image, language, handwriting_mode, reader, o) ==
  IF ~is_ocr_available
    THEN [raised |-> FALSE, text |-> OCR_UNAVAILABLE, reader |-> reader, used |-> None,
          created |-> 0, deleted |-> 0, attempts |-> <<>>]
    ELSE AfterTesseract(image, language, reader, o, TesseractPart(image, handwriting_mode, o))

(***************************************************************************)
(* Image preprocessor: utils/image_processing.py                           *)
(***************************************************************************)
\* preprocess_params is None
ParamsNone == [is_none |-> TRUE]

\* params.get(key, default)
Get(params, key, default) == IF key \in DOMAIN params THEN params[key] ELSE default

\* lines 52-59
DefaultParams ==
  [enhance |-> TRUE, grayscale |-> TRUE, contrast |-> 15, threshold |-> 130,
   noise_reduction |-> TRUE]

(***************************************************************************)
(* An image is [mode, px]: mode is "L" or "RGB", px the row of its pixels, *)
(* each pixel the tuple of its channel values 0..255 (one for "L", three   *)
(* for "RGB").  Contrast factors are in tenths (10 is the factor 1.0).     *)
(***************************************************************************)
Clip(v) == IF v < 0 THEN 0 ELSE IF v > 255 THEN 255 ELSE v

\* the luma of a pixel as PIL's convert("L") computes it
Luma(p) ==
  IF Len(p) = 1 THEN p[1]
  ELSE (p[1] * 19595 + p[2] * 38470 + p[3] * 7471 + 32768) \div 65536

\* line 87: img.convert('RGB')
ToRGB(img) ==
  IF img.mode = "RGB" THEN img
  ELSE [mode |-> "RGB", px |-> [i \in DOMAIN img.px |-> <<img.px[i][1], img.px[i][1], img.px[i][1]>>]]

\* line 91: ImageOps.grayscale(img)
ToGray(img) == [mode |-> "L", px |-> [i \in DOMAIN img.px |-> <<Luma(img.px[i])>>]]

RECURSIVE SumLuma(_, _)
SumLuma(px, i) == IF i > Len(px) THEN 0 ELSE Luma(px[i]) + SumLuma(px, i + 1)

\* the mean luma, rounded, that ImageEnhance.Contrast blends with
MeanLuma(img) == (2 * SumLuma(img.px, 1) + Len(img.px)) \div (2 * Len(img.px))

\* lines 96-97: ImageEnhance.Contrast(img).enhance(factor)
Contrast(img, factor) ==
  [img EXCEPT !.px = [i \in DOMAIN img.px |->
     [c \in DOMAIN img.px[i] |->
        Clip((10 * MeanLuma(img) + factor * (img.px[i][c] - MeanLuma(img))) \div 10)]]]

\* line 103: img.point(lambda p: 255 if p > threshold_value else 0)
Binarize(img, threshold_value) ==
  [img EXCEPT !.px = [i \in DOMAIN img.px |->
     [c \in DOMAIN img.px[i] |-> IF img.px[i][c] > threshold_value THEN 255 ELSE 0]]]

Median3(a, b, c) ==
  IF (a <= b /\ b <= c) \/ (c <= b /\ b <= a) THEN b
  ELSE IF (b <= a /\ a <= c) \/ (c <= a /\ a <= b) THEN a
  ELSE c

\* line 108: img.filter(ImageFilter.MedianFilter(size=3)) on a row of
\* pixels, the border pixels repeated
Denoise(img) ==
  [img EXCEPT !.px = [i \in DOMAIN img.px |->
     [c \in DOMAIN img.px[i] |->
        Median3(img.px[IF i = 1 THEN 1 ELSE i - 1][c], img.px[i][c],
                img.px[IF i = Len(img.px) THEN i ELSE i + 1][c])]]]

\* the enhance branch taking the threshold before the grayscale conversion
EnhanceSteps_m(params, mode) ==
  IF Get(params, "enhance", TRUE)
    THEN (IF mode # "RGB" THEN <<"color">> ELSE <<>>)
         \o (IF Get(params, "grayscale", TRUE) /\ Get(params, "threshold", 0) # 0
               THEN <<"threshold">> ELSE <<>>)
         \o (IF Get(params, "grayscale", TRUE) THEN <<"grayscale">> ELSE <<>>)
         \o (IF Get(params, "contrast", 15) # 10 THEN <<"contrast">> ELSE <<>>)
         \o (IF Get(params, "noise_reduction", TRUE) THEN <<"denoise">> ELSE <<>>)
    ELSE <<>>

\* the transforms of the enhance branch, in the order the code applies them
\* (lines 84-108) to an image of the given mode.  `params.get("threshold",
\* None)` is tested for truth: a missing threshold and the threshold 0 are
\* both false.
EnhanceSteps(params, mode) ==
  IF Get(params, "enhance", TRUE)
    THEN (IF mode # "RGB" THEN <<"color">> ELSE <<>>)
         \o (IF Get(params, "grayscale", TRUE) THEN <<"grayscale">> ELSE <<>>)
         \o (IF Get(params, "contrast", 15) # 10 THEN <<"contrast">> ELSE <<>>)
         \o (IF Get(params, "grayscale", TRUE) /\ Get(params, "threshold", 0) # 0
               THEN <<"threshold">> ELSE <<>>)
         \o (IF Get(params, "noise_reduction", TRUE) THEN <<"denoise">> ELSE <<>>)
    ELSE <<>>

\* one transform
ApplyStep(step, img, params) ==
  CASE step = "color"     -> ToRGB(img)
    [] step = "grayscale" -> ToGray(img)
    [] step = "contrast"  -> Contrast(img, Get(params, "contrast", 15))
    [] step = "threshold" -> Binarize(img, Get(params, "threshold", 130))
    [] step = "denoise"   -> Denoise(img)

\* the transforms applied one after the other
RECURSIVE RunSteps(_, _, _)
RunSteps(steps, img, params) ==
  IF steps = <<>> THEN img
  ELSE RunSteps(Tail(steps), ApplyStep(Head(steps), img, params), params)

\* preprocess_image(image_path, params).  image is "path" or "pil";
\* o.img is the image that the file or handle holds; o.open is the outcome
\* of Image.open, which reads the header only; o.load that of decoding the
\* pixel data, which PIL does in the first call that needs the pixels;
\* o.transform that of the transforms otherwise and o.tmpsave that of
\* img.save.  ret is what is returned: "path" (the argument itself), "pil"
\* (an Image) or "temp" (the name of a new file); out is the image it holds.
\* "use_opencv" is in none of the params tried, so lines 111-127 do nothing.
PreprocessWith(image, params, o, steps) ==
      IF ~has_pil
        THEN [raised |-> FALSE, ret |-> image, steps |-> <<>>, created |-> 0, out |-> o.img]
      ELSE IF image = "path" /\ o.open.exc
        THEN [raised |-> FALSE, ret |-> "path", steps |-> <<>>, created |-> 0, out |-> o.img]
      ELSE IF steps # <<>> /\ (o.load.exc \/ o.transform.exc)
        THEN [raised |-> TRUE, ret |-> None, steps |-> <<>>, created |-> 0, out |-> o.img]
      ELSE IF Get(params, "save_temp", FALSE)
        THEN IF o.load.exc \/ o.tmpsave.exc
               THEN [raised |-> TRUE, ret |-> None, steps |-> steps, created |-> 1,
                     out |-> o.img]
               ELSE [raised |-> FALSE, ret |-> "temp", steps |-> steps, created |-> 1,
                     out |-> RunSteps(steps, o.img, params)]
      ELSE [raised |-> FALSE, ret |-> "pil", steps |-> steps, created |-> 0,
            out |-> RunSteps(steps, o.img, params)]

\* the preprocessor that leaves the image alone when params is None
ParamsOrDefault_m(params0) ==
  IF "is_none" \in DOMAIN params0 THEN [enhance |-> FALSE] ELSE params0

\* lines 52-59: the parameters in force
ParamsOrDefault(params0) ==
  IF "is_none" \in DOMAIN params0 THEN DefaultParams ELSE params0

preprocess_image(image, params0, o) ==
  PreprocessWith(image, ParamsOrDefault(params0), o,
                 EnhanceSteps(ParamsOrDefault(params0), o.img.mode))

\* what perform_ocr sees of a value returned by preprocess_image
AsImage(ret) == IF ret = "temp" THEN "path" ELSE ret

\* `preprocess_params and preprocess_params.get("enhance", False)`
WantsPreprocess(params) ==
  /\ "is_none" \notin DOMAIN params
  /\ Get(params, "enhance", FALSE)

\* The OCR of one stored image as the extractors do it (file_handlers.py
\* lines 183-188, 293-298, 364-369): optional preprocess, then perform_ocr.
\* r is what perform_ocr returned, made_before the temporary files that
\* preprocess_image made
OcrDone(r, made_before, preprocessed) ==
  [raised |-> r.raised, text |-> r.text, reader |-> r.reader, calls |-> 1,
   created |-> made_before + r.created, deleted |-> r.deleted,
   preprocessed |-> preprocessed]

\* p is what preprocess_image returned
OcrPreprocessed(language, reader, o, p) ==
  IF p.raised
    THEN [raised |-> TRUE, text |-> "", reader |-> reader, calls |-> 0,
          created |-> p.created, deleted |-> 0, preprocessed |-> TRUE]
    ELSE OcrDone(perform_ocr(AsImage(p.ret), language, FALSE, reader, o), p.created, TRUE)

OcrImage(params, language, reader, o) ==
  IF WantsPreprocess(params)
    THEN OcrPreprocessed(language, reader, o, preprocess_image("path", params, o))
    ELSE OcrDone(perform_ocr("path", language, FALSE, reader, o), 0, FALSE)

(***************************************************************************)
(* PDF extractor: file_handlers.extract_text_from_pdf                      *)
(***************************************************************************)
has_pymupdf   == "fitz" \in avail
has_pypdf2    == "PyPDF2" \in avail
has_pdf2image == "pdf2image" \in avail

PDF_NO_TEXT ==
  "[No text could be extracted from this PDF. It may be scanned, image-based, or protected.]"

\* the marker numbered from page_num instead of page_num+1
PageMarker_m(n) == "--- Page " \o ToString(n - 1) \o " ---"

\* f"\n--- Page {n} ---\n{page_text}\n"
PageMarker(n) == "--- Page " \o ToString(n) \o " ---"
PageBlock(n, page_text) == "\n" \o PageMarker(n) \o "\n" \o page_text \o "\n"

\* A PDF document d: d.pages[i] is the text layer of page i as the
\* libraries return it; d.mu_fail / d.py_fail name the call of PyMuPDF /
\* PyPDF2 that raises: 0 is the open, i >= 1 the read of page i, -1 none.
\* A call c: c.use_ocr, c.language, c.params, c.o (library outcomes).

\* line 283 without the use_ocr test
NeedsOcr_m(page_text, use_ocr) == IsBlank(page_text)

\* line 283: `not page_text.strip() and use_ocr`
NeedsOcr(page_text, use_ocr) == IsBlank(page_text) /\ use_ocr

\* the OCR of a page that leaves ocr_used as it is
PageOcred_m(acc, i, r) ==
  IF r.raised
    THEN [acc EXCEPT !.exc = TRUE, !.created = @ + 1 + r.created,
                     !.prep = @ + (IF r.preprocessed THEN 1 ELSE 0)]
    ELSE [acc EXCEPT !.text = @ \o PageBlock(i, r.text),
                     !.prep = @ + (IF r.preprocessed THEN 1 ELSE 0),
                     !.reader = r.reader,
                     !.calls = @ + r.calls,
                     !.ocr_pages = Append(@, i),
                     !.created = @ + 1 + r.created,
                     !.deleted = @ + 1 + r.deleted]

\* lines 288-304, 363-375: the state of an extraction after the OCR r of
\* the stored image of page i; the image file is unlinked only when the OCR
\* returned
PageOcred(acc, i, r) ==
  IF r.raised
    THEN [acc EXCEPT !.exc = TRUE, !.created = @ + 1 + r.created,
                     !.prep = @ + (IF r.preprocessed THEN 1 ELSE 0)]
    ELSE [acc EXCEPT !.text = @ \o PageBlock(i, r.text),
                     !.prep = @ + (IF r.preprocessed THEN 1 ELSE 0),
                     !.ocr_used = TRUE,
                     !.reader = r.reader,
                     !.calls = @ + r.calls,
                     !.ocr_pages = Append(@, i),
                     !.created = @ + 1 + r.created,
                     !.deleted = @ + 1 + r.deleted]

\* lines 283-301: the OCR of page i within the PyMuPDF strategy
MuPageOcr(c, i, acc) ==
  IF c.o.raster = "pixmap_exc" THEN [acc EXCEPT !.exc = TRUE]
  ELSE IF c.o.raster = "save_exc" THEN [acc EXCEPT !.exc = TRUE, !.created = @ + 1]
  ELSE PageOcred(acc, i, OcrImage(c.params, c.language, acc.reader, c.o))

\* lines 278-304: the page loop of the PyMuPDF strategy from page i on
RECURSIVE MuPages(_, _, _, _)
MuPages(d, c, i, acc) ==
  IF acc.exc \/ i > Len(d.pages) THEN acc
  ELSE IF d.mu_fail = i THEN [acc EXCEPT !.exc = TRUE]
  ELSE IF NeedsOcr(d.pages[i], c.use_ocr)
    THEN MuPages(d, c, i + 1,
           MuPageOcr(c, i,
             [acc EXCEPT !.logs = Append(@, "Page " \o ToString(i)
                               \o " appears to be scanned/image-based. Attempting OCR.")]))
  ELSE MuPages(d, c, i + 1, [acc EXCEPT !.text = @ \o PageBlock(i, d.pages[i])])

\* lines 327-334: the page loop of the PyPDF2 strategy from page i on
RECURSIVE PyPages(_, _, _)
PyPages(d, i, acc) ==
  IF acc.exc \/ i > Len(d.pages) THEN acc
  ELSE IF d.py_fail = i THEN [acc EXCEPT !.exc = TRUE]
  ELSE PyPages(d, i + 1, [acc EXCEPT !.text = @ \o PageBlock(i, d.pages[i])])

\* lines 357-375: the page loop of the full-document OCR from image i on
RECURSIVE OcrPages(_, _, _, _)
OcrPages(d, c, i, acc) ==
  IF acc.exc \/ i > Len(d.pages) THEN acc
  ELSE IF c.o.raster = "save_exc" THEN [acc EXCEPT !.exc = TRUE, !.created = @ + 1]
  ELSE OcrPages(d, c, i + 1,
         PageOcred(acc, i, OcrImage(c.params, c.language, acc.reader, c.o)))

\* lines 306-317, 335-343: the end of a text-layer strategy, a1 being the
\* state its page loop left
StrategyEnd(lib, a1) ==
  IF a1.exc
    THEN [a1 EXCEPT !.exc = FALSE,
                    !.logs = Append(@, lib \o " extraction failed: " \o ExcMsg)]
  ELSE IF IsBlank(a1.text)
    THEN [a1 EXCEPT !.logs = Append(@, "No text extracted with " \o lib)]
  ELSE [a1 EXCEPT !.done = TRUE,
                  !.logs = Append(@, "Successfully extracted text from PDF using " \o lib)]

\* lines 272-317: the PyMuPDF strategy
PdfPyMuPDF(d, c, acc) ==
  IF ~has_pymupdf
    THEN [acc EXCEPT !.logs = Append(@, "PyMuPDF not available, trying alternative methods")]
  ELSE StrategyEnd("PyMuPDF",
         IF d.mu_fail = 0
           THEN [acc EXCEPT !.logs = Append(@, "Attempting to extract text using PyMuPDF"),
                            !.text = "", !.tried = Append(@, "PyMuPDF"), !.exc = TRUE]
           ELSE MuPages(d, c, 1,
                  [acc EXCEPT !.logs = Append(@, "Attempting to extract text using PyMuPDF"),
                              !.text = "", !.tried = Append(@, "PyMuPDF")]))

\* lines 320-343: the PyPDF2 strategy
PdfPyPDF2(d, acc) ==
  IF acc.done \/ ~(has_pypdf2 /\ ~Truthy(acc.text)) THEN acc
  ELSE StrategyEnd("PyPDF2",
         IF d.py_fail = 0
           THEN [acc EXCEPT !.logs = Append(@, "Attempting to extract text using PyPDF2"),
                            !.text = "", !.tried = Append(@, "PyPDF2"), !.exc = TRUE]
           ELSE PyPages(d, 1,
                  [acc EXCEPT !.logs = Append(@, "Attempting to extract text using PyPDF2"),
                              !.text = "", !.tried = Append(@, "PyPDF2")]))

\* lines 377-382: the end of the full-document OCR
FullOcrEnd(a1) ==
  IF a1.exc
    THEN [a1 EXCEPT !.exc = FALSE,
                    !.logs = Append(@, "Full document OCR failed: " \o ExcMsg)]
    ELSE [a1 EXCEPT !.logs = Append(@, "Completed full document OCR using pdf2image and OCR")]

\* lines 346-382: the full-document OCR
PdfFullOcr(d, c, acc) ==
  IF acc.done \/ ~(IsBlank(acc.text) /\ c.use_ocr) THEN acc
  ELSE IF ~has_pdf2image
    THEN [acc EXCEPT !.logs = @ \o
            <<"PDF appears to be scanned/image-based. Attempting full document OCR.",
              "pdf2image not available for PDF to image conversion">>,
            !.tried = Append(@, "pdf2image")]
  ELSE FullOcrEnd(
         IF c.o.convert.exc
           THEN [acc EXCEPT !.logs = Append(@,
                   "PDF appears to be scanned/image-based. Attempting full document OCR."),
                   !.tried = Append(@, "pdf2image"), !.text = "", !.exc = TRUE]
           ELSE OcrPages(d, c, 1,
                  [acc EXCEPT !.logs = Append(@,
                     "PDF appears to be scanned/image-based. Attempting full document OCR."),
                     !.tried = Append(@, "pdf2image"), !.text = ""]))

\* lines 385-389: the final fallback message
PdfFallback(acc) ==
  IF ~acc.done /\ IsBlank(acc.text)
    THEN [acc EXCEPT !.text = PDF_NO_TEXT,
                     !.logs = Append(@, "Could not extract any text from the PDF")]
    ELSE acc

\* extract_text_from_pdf(pdf_path, use_ocr, ocr_language, preprocess_params)
extract_text_from_pdf(d, c, reader) ==
  LET acc0 == [text |-> "", ocr_used |-> FALSE, logs |-> <<>>, exc |-> FALSE, done |-> FALSE,
               reader |-> reader, calls |-> 0, ocr_pages |-> <<>>, tried |-> <<>>,
               created |-> 0, deleted |-> 0, prep |-> 0]
  IN  PdfFallback(PdfFullOcr(d, c, PdfPyPDF2(d, PdfPyMuPDF(d, c, acc0))))

(***************************************************************************)
(* The other format extractors of file_handlers.py.  x.s1, x.s2 are the    *)
(* outcomes of the library calls of the first and second strategy, x.s0    *)
(* that of reading the file.                                               *)
(***************************************************************************)
has_docx2txt    == "docx2txt" \in avail
has_python_docx == "docx" \in avail
has_python_pptx == "pptx" \in avail
has_pandas      == "pandas" \in avail
has_odf         == "odf" \in avail
has_bs4         == "bs4" \in avail
has_striprtf    == "striprtf" \in avail
has_ebooklib    == "ebooklib" \in avail
has_extract_msg == "extract_msg" \in avail

Out(text, logs, tried) == [text |-> text, logs |-> logs, tried |-> tried]

\* extract_text_from_doc(doc_path), lines 391-459
extract_text_from_doc(doc_path, x) ==
  LET is_docx == EndsWith(Lower(doc_path), ".docx")
      \* docx2txt
      a == IF has_docx2txt /\ is_docx
             THEN LET l == <<"Attempting to extract text using docx2txt">>
                  IN  IF x.s1.exc
                        THEN [done |-> FALSE, text |-> "", tried |-> <<"docx2txt">>,
                              logs |-> Append(l, "docx2txt extraction failed: " \o ExcMsg)]
                      ELSE IF ~IsBlank(x.s1.val)
                        THEN [done |-> TRUE, text |-> x.s1.val, tried |-> <<"docx2txt">>,
                              logs |-> Append(l, "Successfully extracted text using docx2txt")]
                      ELSE [done |-> FALSE, text |-> x.s1.val, tried |-> <<"docx2txt">>,
                            logs |-> Append(l, "No text extracted with docx2txt")]
             ELSE [done |-> FALSE, text |-> "", tried |-> <<>>, logs |-> <<>>]
      \* python-docx
      b == IF ~a.done /\ has_python_docx /\ is_docx
             THEN LET l == Append(a.logs, "Attempting to extract text using python-docx")
                      t == Append(a.tried, "python-docx")
                  IN  IF x.s2.exc
                        THEN [done |-> FALSE, text |-> a.text, tried |-> t,
                              logs |-> Append(l, "python-docx extraction failed: " \o ExcMsg)]
                      ELSE IF ~IsBlank(x.s2.val)
                        THEN [done |-> TRUE, text |-> x.s2.val, tried |-> t,
                              logs |-> Append(l, "Successfully extracted text using python-docx")]
                      ELSE [done |-> FALSE, text |-> x.s2.val, tried |-> t,
                            logs |-> Append(l, "No text extracted with python-docx")]
             ELSE a
      \* legacy DOC
      c == IF ~b.done /\ EndsWith(Lower(doc_path), ".doc")
             THEN [b EXCEPT !.text = "[DOC (legacy format) file detected. For best results, convert to DOCX format.]",
                            !.logs = Append(@, "Legacy DOC format detected, limited extraction support")]
             ELSE b
      e == IF ~c.done /\ ~Truthy(c.text)
             THEN [c EXCEPT !.text = "[Could not extract text from this document. It may be protected or corrupted.]",
                            !.logs = Append(@, "All document extraction methods failed")]
             ELSE c
  IN  Out(e.text, e.logs, e.tried)

\* extract_text_from_ppt(ppt_path), lines 461-517
extract_text_from_ppt(ppt_path, x) ==
  IF has_python_pptx /\ EndsWith(Lower(ppt_path), ".pptx")
    THEN LET l == <<"Attempting to extract text using python-pptx">>
         IN  IF x.s1.exc
               THEN Out("[Error extracting presentation text: " \o ExcMsg \o "]",
                        Append(l, "python-pptx extraction failed: " \o ExcMsg), <<"python-pptx">>)
             ELSE IF ~IsBlank(x.s1.val)
               THEN Out(x.s1.val, Append(l, "Successfully extracted text using python-pptx"),
                        <<"python-pptx">>)
             ELSE Out("[No text found in this presentation. It may contain only images or other non-text elements.]",
                      Append(l, "No text found in presentation"), <<"python-pptx">>)
  ELSE IF EndsWith(Lower(ppt_path), ".ppt")
    THEN Out("[PPT (legacy format) file detected. For best results, convert to PPTX format.]",
             <<"Legacy PPT format detected, limited extraction support">>, <<>>)
  ELSE Out("[Could not extract text from this presentation. Required library not available.]",
           <<"python-pptx library not available">>, <<>>)

\* file_type.upper() for the spreadsheet types
UpperType(t) == CASE t = "xlsx" -> "XLSX" [] t = "xls" -> "XLS" [] t = "ods" -> "ODS" [] OTHER -> t

\* extract_text_from_spreadsheet(file_path, file_type), lines 519-620
extract_text_from_spreadsheet(file_type, x) ==
  LET failmsg == IF file_type \in {"xlsx", "xls", "ods"}
                   THEN "[Could not extract data from " \o UpperType(file_type)
                        \o " file. Required libraries not available or file is corrupted/protected.]"
                   ELSE "[Unsupported spreadsheet format or extraction failed.]"
      a == IF file_type = "csv"
             THEN IF x.s1.exc
                    THEN [done |-> FALSE, text |-> "", tried |-> <<"csv">>,
                          logs |-> <<"Processing CSV file", "CSV extraction failed: " \o ExcMsg>>]
                    ELSE [done |-> TRUE, text |-> x.s1.val, tried |-> <<"csv">>,
                          logs |-> <<"Processing CSV file", "Successfully extracted data from CSV">>]
             ELSE [done |-> FALSE, text |-> "", tried |-> <<>>, logs |-> <<>>]
      b == IF ~a.done /\ has_pandas /\ file_type \in {"xlsx", "xls", "ods"}
             THEN LET l == Append(a.logs, "Attempting to extract data from "
                                          \o UpperType(file_type) \o " using pandas")
                  IN  IF x.s1.exc
                        THEN [done |-> FALSE, text |-> "", tried |-> <<"pandas">>,
                              logs |-> Append(l, "Pandas extraction failed: " \o ExcMsg)]
                        ELSE [done |-> TRUE, text |-> x.s1.val, tried |-> <<"pandas">>,
                              logs |-> Append(l, "Successfully extracted data from sheets")]
             ELSE a
      c == IF ~b.done /\ has_odf /\ file_type = "ods" /\ ~Truthy(b.text)
             THEN LET l == Append(b.logs, "Attempting to extract data from ODS using odfpy")
                      t == Append(b.tried, "odfpy")
                  IN  IF x.s2.exc
                        THEN [done |-> FALSE, text |-> "", tried |-> t,
                              logs |-> Append(l, "ODF extraction failed: " \o ExcMsg)]
                        ELSE [done |-> TRUE, text |-> x.s2.val, tried |-> t,
                              logs |-> Append(l, "Successfully extracted data from tables using odfpy")]
             ELSE b
  IN  IF ~c.done /\ ~Truthy(c.text)
        THEN Out(failmsg, Append(c.logs, "All spreadsheet extraction methods failed"), c.tried)
        ELSE Out(c.text, c.logs, c.tried)

\* extract_text_from_rtf(rtf_path), lines 622-666
extract_text_from_rtf(x) ==
  LET l0 == IF has_striprtf
              THEN <<"Attempting to extract text from RTF using striprtf",
                     "RTF extraction failed: " \o ExcMsg>>
              ELSE <<"striprtf library not available">>
      t0 == IF has_striprtf THEN <<"striprtf">> ELSE <<>>
  IN  IF has_striprtf /\ ~x.s1.exc
        THEN Out(x.s1.val, <<"Attempting to extract text from RTF using striprtf",
                             "Successfully extracted text from RTF">>, <<"striprtf">>)
      ELSE IF x.s2.exc
        THEN Out("[Error extracting RTF text: " \o ExcMsg \o "]",
                 l0 \o <<"Attempting fallback RTF extraction",
                         "Fallback RTF extraction failed: " \o ExcMsg>>, Append(t0, "regex"))
      ELSE Out(Strip(x.s2.val), l0 \o <<"Attempting fallback RTF extraction",
                                 "Used fallback method for RTF extraction">>, Append(t0, "regex"))

\* extract_text_from_html(html_path), lines 668-719
extract_text_from_html(x) ==
  IF x.s0.exc
    THEN Out("[Error extracting HTML text: " \o ExcMsg \o "]",
             <<"HTML extraction failed: " \o ExcMsg>>, <<>>)
  ELSE IF has_bs4
    THEN IF x.s1.exc
           THEN Out("[Error extracting HTML text: " \o ExcMsg \o "]",
                    <<"Extracting text from HTML using BeautifulSoup",
                      "HTML extraction failed: " \o ExcMsg>>, <<"BeautifulSoup">>)
           ELSE Out("Title: Untitled\n\n" \o x.s1.val,
                    <<"Extracting text from HTML using BeautifulSoup",
                      "Successfully extracted text from HTML">>, <<"BeautifulSoup">>)
  ELSE IF x.s2.exc
    THEN Out("[Error extracting HTML text: " \o ExcMsg \o "]",
             <<"BeautifulSoup not available, using simple HTML tag removal",
               "HTML extraction failed: " \o ExcMsg>>, <<"regex">>)
  ELSE Out(Strip(x.s2.val), <<"BeautifulSoup not available, using simple HTML tag removal",
                       "Used basic regex for HTML text extraction">>, <<"regex">>)

\* lines 741-764: the dump of a root element whose text content is text
ElementDump(text) ==
  IF IsBlank(text) THEN "<root>\n</root>"
  ELSE "<root>\n  " \o Strip(text) \o "\n</root>"

\* extract_text_from_xml(xml_path), lines 721-786
extract_text_from_xml(x) ==
  IF ~x.s1.exc
    THEN Out(ElementDump(x.s1.val),
             <<"Extracting text from XML", "Successfully extracted text from XML">>,
             <<"ElementTree">>)
  ELSE IF ~x.s2.exc
    THEN Out(Strip(x.s2.val), <<"Extracting text from XML", "XML extraction failed: " \o ExcMsg,
                         "Used fallback method for XML extraction">>, <<"ElementTree", "regex">>)
  ELSE Out("[Error extracting XML text: " \o ExcMsg \o "]",
           <<"Extracting text from XML", "XML extraction failed: " \o ExcMsg,
             "Fallback XML extraction also failed: " \o ExcMsg>>, <<"ElementTree", "regex">>)

\* extract_text_from_odf(odf_path), lines 788-830
extract_text_from_odf(x) ==
  IF ~has_odf
    THEN Out("[Could not extract text from ODF document. Required library not available.]",
             <<"odfpy library not available">>, <<>>)
  ELSE IF x.s1.exc
    THEN Out("[Error extracting ODF text: " \o ExcMsg \o "]",
             <<"Extracting text from ODF document", "ODF extraction failed: " \o ExcMsg>>,
             <<"odfpy">>)
  ELSE Out(x.s1.val, <<"Extracting text from ODF document",
                       "Successfully extracted text from ODF document">>, <<"odfpy">>)

\* extract_text_from_epub(epub_path), lines 832-886
extract_text_from_epub(x) ==
  IF ~has_ebooklib
    THEN Out("[Could not extract text from EPUB. Required library not available.]",
             <<"ebooklib library not available">>, <<>>)
  ELSE IF x.s1.exc
    THEN Out("[Error extracting EPUB text: " \o ExcMsg \o "]",
             <<"Extracting text from EPUB", "EPUB extraction failed: " \o ExcMsg>>, <<"ebooklib">>)
  ELSE Out("Title: Untitled\nAuthor: Unknown\n\n" \o x.s1.val,
           <<"Extracting text from EPUB", "Successfully extracted text from EPUB">>,
           <<"ebooklib">>)

\* extract_text_from_email(email_path, email_type), lines 888-1004
extract_text_from_email(email_type, x) ==
  IF email_type = "eml"
    THEN IF x.s1.exc
           THEN Out("[Error extracting EML text: " \o ExcMsg \o "]",
                    <<"Extracting text from EML file", "EML extraction failed: " \o ExcMsg>>,
                    <<"email">>)
           ELSE Out("From: Unknown\nTo: Unknown\nSubject: No Subject\nDate: Unknown\n\n" \o x.s1.val,
                    <<"Extracting text from EML file", "Successfully extracted text from EML file">>,
                    <<"email">>)
  ELSE IF email_type = "msg" /\ has_extract_msg
    THEN IF x.s1.exc
           THEN Out("[Error extracting MSG text: " \o ExcMsg \o "]",
                    <<"Extracting text from MSG file", "MSG extraction failed: " \o ExcMsg>>,
                    <<"extract_msg">>)
           ELSE Out("From: Unknown\nTo: Unknown\nSubject: No Subject\nDate: Unknown\n\n" \o x.s1.val,
                    <<"Extracting text from MSG file", "Successfully extracted text from MSG file">>,
                    <<"extract_msg">>)
  ELSE IF email_type = "msg"
    THEN Out("[Could not extract text from MSG file. Required library not available.]",
             <<"extract_msg library not available">>, <<>>)
  ELSE Out("[Unsupported email type: " \o email_type \o "]",
           <<"Unsupported email type: " \o email_type>>, <<>>)

(***************************************************************************)
(* Pipeline orchestrator: file_handlers.extract_text_from_file             *)
(***************************************************************************)
\* the tag -> extractor table of the if/elif chain, lines 176-241
DispatchTable ==
  << [extractor |-> "pdf",         tags |-> {"pdf"}],
     [extractor |-> "image",       tags |-> Range(SUPPORTED_IMAGE_FORMATS)],
     [extractor |-> "doc",         tags |-> {"doc", "docx"}],
     [extractor |-> "ppt",         tags |-> {"ppt", "pptx"}],
     [extractor |-> "spreadsheet", tags |-> {"xls", "xlsx", "csv", "ods"}],
     [extractor |-> "txt",         tags |-> {"txt"}],
     [extractor |-> "rtf",         tags |-> {"rtf"}],
     [extractor |-> "html",        tags |-> {"html", "htm"}],
     [extractor |-> "xml",         tags |-> {"xml"}],
     [extractor |-> "odf",         tags |-> {"odt", "odp"}],
     [extractor |-> "epub",        tags |-> {"epub"}],
     [extractor |-> "email",       tags |-> {"eml", "msg"}] >>

\* the rows of the table a tag matches
MatchingRows(tag) == {i \in DOMAIN DispatchTable : tag \in DispatchTable[i].tags}

\* the chain with the e-mail row missing
Dispatch_m(tag) ==
  IF MatchingRows(tag) = {} \/ tag \in {"eml", "msg"} THEN "else"
  ELSE DispatchTable[CHOOSE i \in MatchingRows(tag) : \A j \in MatchingRows(tag) : i <= j].extractor

\* the branch of the if/elif chain that is taken: the first matching row,
\* "else" when there is none
Dispatch(tag) ==
  IF MatchingRows(tag) = {} THEN "else"
  ELSE DispatchTable[CHOOSE i \in MatchingRows(tag) : \A j \in MatchingRows(tag) : i <= j].extractor

\* what a branch hands back to the orchestrator; exc: an exception left it
Branch(exc, text, ocr_used, logs) ==
  [exc |-> exc, text |-> text, ocr_used |-> ocr_used, logs |-> logs,
   calls |-> 0, created |-> 0, deleted |-> 0, tried |-> <<>>, ocr_pages |-> <<>>,
   reader |-> None, prep |-> 0]

IMAGE_NO_OCR == "OCR was not enabled. Enable OCR to extract text content from this image."
IMAGE_NO_PIL == "[Image file - OCR not enabled]"

\* f"[Image: {width}x{height}, Format: {img.format}]\n"
ImageMeta(img) ==
  "[Image: " \o ToString(img.width) \o "x" \o ToString(img.height)
  \o ", Format: " \o img.format \o "]\n"

\* lines 183-191: the image branch after the OCR r of the file
ImageOcred(c, reader, r) ==
  LET l0 == IF r.preprocessed THEN <<"Preprocessing image before OCR">> ELSE <<>>
  IN  IF r.raised
        THEN [Branch(TRUE, "", FALSE, l0) EXCEPT !.created = r.created, !.reader = reader,
                                                 !.prep = IF r.preprocessed THEN 1 ELSE 0]
        ELSE [Branch(FALSE, r.text, TRUE,
                     Append(l0, "Performed OCR on image with language: " \o c.language))
                EXCEPT !.calls = r.calls, !.created = r.created,
                       !.deleted = r.deleted, !.reader = r.reader,
                       !.prep = IF r.preprocessed THEN 1 ELSE 0]

\* lines 180-200: the image branch; f.img is the outcome of Image.open
ImageBranch(f, c, reader) ==
  IF c.use_ocr
    THEN ImageOcred(c, reader, OcrImage(c.params, c.language, reader, c.o))
  ELSE IF has_pil
    THEN IF f.img.exc
           THEN [Branch(TRUE, "", FALSE, <<"OCR not enabled for image file">>)
                   EXCEPT !.reader = reader]
           ELSE [Branch(FALSE, ImageMeta(f.img.val) \o IMAGE_NO_OCR, FALSE,
                        <<"OCR not enabled for image file">>) EXCEPT !.reader = reader]
  ELSE [Branch(FALSE, IMAGE_NO_PIL, FALSE, <<"OCR not enabled for image file">>)
          EXCEPT !.reader = reader]

\* a (text, logs) extractor result as a branch result
FromOut(out, reader) ==
  [Branch(FALSE, out.text, FALSE, out.logs) EXCEPT !.tried = out.tried, !.reader = reader]

\* lines 178-179: the result of extract_text_from_pdf as a branch result
FromPdf(r) ==
  [exc |-> FALSE, text |-> r.text, ocr_used |-> r.ocr_used, logs |-> r.logs,
   calls |-> r.calls, created |-> r.created, deleted |-> r.deleted,
   tried |-> r.tried, ocr_pages |-> r.ocr_pages, reader |-> r.reader, prep |-> r.prep]

\* lines 176-246: the body of the try block for the branch taken
RunBranch(branch, file_path, file_type, f, c, reader) ==
  CASE branch = "pdf" ->
         FromPdf(extract_text_from_pdf(f.pdf, c, reader))
    [] branch = "image" -> ImageBranch(f, c, reader)
    [] branch = "doc" -> FromOut(extract_text_from_doc(file_path, f.x), reader)
    [] branch = "ppt" -> FromOut(extract_text_from_ppt(file_path, f.x), reader)
    [] branch = "spreadsheet" -> FromOut(extract_text_from_spreadsheet(file_type, f.x), reader)
    [] branch = "txt" ->
         IF f.x.s0.exc
           THEN [Branch(TRUE, "", FALSE, <<>>) EXCEPT !.reader = reader]
           ELSE [Branch(FALSE, f.x.s0.val, FALSE, <<"Extracted text from TXT file">>)
                   EXCEPT !.reader = reader]
    [] branch = "rtf" -> FromOut(extract_text_from_rtf(f.x), reader)
    [] branch = "html" -> FromOut(extract_text_from_html(f.x), reader)
    [] branch = "xml" -> FromOut(extract_text_from_xml(f.x), reader)
    [] branch = "odf" -> FromOut(extract_text_from_odf(f.x), reader)
    [] branch = "epub" -> FromOut(extract_text_from_epub(f.x), reader)
    [] branch = "email" -> FromOut(extract_text_from_email(file_type, f.x), reader)
    [] OTHER ->
         [Branch(FALSE, "[Unsupported file type: " \o file_type \o "]", FALSE,
                 <<"Unsupported file type: " \o file_type>>) EXCEPT !.reader = reader]

\* the dispatch without the exception guard
Guard_m(b) == b

\* lines 174, 248-250: the top-level exception guard around the dispatch
Guard(b) ==
  IF b.exc
    THEN [b EXCEPT !.exc = FALSE,
                   !.text = "[Error extracting text: " \o ExcMsg \o "]",
                   !.logs = Append(@, "Error extracting text: " \o ExcMsg)]
    ELSE b

\* the logs with the auto-detection entry put after those of the branch
Returned_m(file_type, branch, log0, b) ==
  [raised |-> b.exc, text |-> b.text, ocr_used |-> b.ocr_used, logs |-> b.logs \o log0,
   tag |-> file_type, entered |-> IF branch = "else" THEN <<>> ELSE <<branch>>,
   calls |-> b.calls, created |-> b.created, deleted |-> b.deleted,
   tried |-> b.tried, ocr_pages |-> b.ocr_pages, reader |-> b.reader, prep |-> b.prep]

\* extract_text_from_file(file_path, file_type, use_ocr, ocr_language,
\* preprocess_params).  f describes the file at file_path, f.content_type
\* what mimetypes guesses for it; c.o holds the outcomes of the OCR and
\* image library calls.
\* b is what the guarded dispatch left; the fields after logs record what
\* the call did.
Returned(file_type, branch, log0, b) ==
  [raised |-> b.exc, text |-> b.text, ocr_used |-> b.ocr_used, logs |-> log0 \o b.logs,
   tag |-> file_type, entered |-> IF branch = "else" THEN <<>> ELSE <<branch>>,
   calls |-> b.calls, created |-> b.created, deleted |-> b.deleted,
   tried |-> b.tried, ocr_pages |-> b.ocr_pages, reader |-> b.reader, prep |-> b.prep]

\* lines 170-250: the call from the lowercasing of the tag on
Dispatched(file_type, branch, log0, file_path, f, c, reader) ==
  Returned(file_type, branch, log0,
           Guard(RunBranch(branch, file_path, file_type, f, c, reader)))

\* lines 164-172: the tag is detected when none is given
WithTag(auto, detected, file_path, f, c, reader) ==
  Dispatched(Lower(detected), Dispatch(Lower(detected)),
             IF auto THEN <<"Auto-detected file type: " \o detected>> ELSE <<>>,
             file_path, f, c, reader)

extract_text_from_file(file_path, file_type0, f, c, reader) ==
  IF file_type0 = None \/ file_type0 = ""
    THEN WithTag(TRUE, detect_file_type(file_path, f.content_type), file_path, f, c, reader)
    ELSE WithTag(FALSE, file_type0, file_path, f, c, reader)

(***************************************************************************)
(* The body of an e-mail: file_handlers.extract_text_from_email, lines     *)
(* 919-964.  A message m: m.multipart, and m.parts, the parts msg.walk()   *)
(* yields after the multipart container, each with its content type, its   *)
(* Content-Disposition as str() gives it ("None" when absent) and its      *)
(* decoded payload.                                                        *)
(***************************************************************************)
\* where the match of <[^>]+> that starts at the first character of s
\* ends, 0 when there is none
TagEnd(s) ==
  IF \E k \in 3..Len(s) : CharAt(s, k) = ">" /\ \A j \in 2..(k - 1) : CharAt(s, j) # ">"
    THEN CHOOSE k \in 3..Len(s) :
           CharAt(s, k) = ">" /\ \A j \in 2..(k - 1) : CharAt(s, j) # ">"
    ELSE 0

\* re.sub(r'<[^>]+>', ' ', s)
RECURSIVE RemoveTags(_)
RemoveTags(s) ==
  IF Len(s) = 0 THEN ""
  ELSE IF CharAt(s, 1) = "<" /\ TagEnd(s) > 0
    THEN " " \o RemoveTags(SubSeq(s, TagEnd(s) + 1, Len(s)))
  ELSE CharAt(s, 1) \o RemoveTags(SubSeq(s, 2, Len(s)))

\* the text nodes of the document in s, cur being the node read so far
RECURSIVE TextNodes(_, _)
TextNodes(s, cur) ==
  IF Len(s) = 0 THEN (IF cur = "" THEN <<>> ELSE <<cur>>)
  ELSE IF CharAt(s, 1) = "<" /\ TagEnd(s) > 0
    THEN (IF cur = "" THEN <<>> ELSE <<cur>>)
         \o TextNodes(SubSeq(s, TagEnd(s) + 1, Len(s)), "")
  ELSE TextNodes(SubSeq(s, 2, Len(s)), cur \o CharAt(s, 1))

\* BeautifulSoup(s, 'html.parser').get_text(separator='\n')
SoupText(s) == JoinLines(TextNodes(s, ""))

\* lines 956-961: the text taken from an HTML part
HtmlText(html_content) ==
  IF has_bs4 THEN SoupText(html_content) ELSE RemoveTags(html_content)

\* lines 921-961: the loop over msg.walk() from part i on
RECURSIVE WalkParts(_, _, _)
WalkParts(parts, i, body) ==
  IF i > Len(parts) THEN body
  ELSE IF Contains(parts[i].disposition, "attachment")
    THEN WalkParts(parts, i + 1, body)
  ELSE IF parts[i].content_type = "text/plain"
    THEN WalkParts(parts, i + 1, body \o parts[i].payload)
  ELSE IF parts[i].content_type = "text/html" /\ ~Truthy(body)
    THEN WalkParts(parts, i + 1, body \o HtmlText(parts[i].payload))
  ELSE WalkParts(parts, i + 1, body)

\* lines 919-964: the body of a parsed message
EmlBody(m) ==
  IF m.multipart THEN WalkParts(m.parts, 1, "") ELSE m.parts[1].payload

(***************************************************************************)
(* The CSV strategy of extract_text_from_spreadsheet, lines 534-546: rows  *)
(* is list(csv.reader(file)), a sequence of sequences of cells.            *)
(***************************************************************************)
\* " | ".join(row)
RECURSIVE JoinCells(_)
JoinCells(row) ==
  IF Len(row) = 0 THEN ""
  ELSE IF Len(row) = 1 THEN row[1]
  ELSE row[1] \o " | " \o JoinCells(Tail(row))

\* lines 542-543: extracted_text after the loop over the rows from row i on
RECURSIVE CsvText(_, _)
CsvText(rows, i) ==
  IF i > Len(rows) THEN "" ELSE JoinCells(rows[i]) \o "\n" \o CsvText(rows, i + 1)

(***************************************************************************)
(* The API wrapper: text_extractor_api.TextExtractor                       *)
(***************************************************************************)
\* the parameters of extract_text_from_file, file_handlers.py line 147
OrchestratorParams ==
  {"file_path", "file_type", "use_ocr", "ocr_language", "preprocess_params"}

\* the keyword arguments extract_from_file passes besides file_path,
\* lines 55-59
ApiKeywords == {"language", "handwriting_mode"}

\* what extract_text_from_file returns is a tuple (text, ocr_used, logs)
ResultKind == "tuple"

TYPE_ERROR_KEYWORD ==
  "extract_text_from_file() got an unexpected keyword argument 'language'"
TYPE_ERROR_INDEX == "tuple indices must be integers or slices, not str"

\* lines 43-49, 71-77: the dictionary of a failed extraction
ApiFailure(error) ==
  [success |-> FALSE, error |-> error, text |-> "", file_type |-> None, ocr_used |-> FALSE]

\* TextExtractor.extract_from_file(file_path, language, handwriting_mode);
\* exists is os.path.exists(file_path), orch what extract_text_from_file
\* returns for the file when it is called with its own parameters
extract_from_file(file_path, exists, file_type, orch) ==
  IF ~exists THEN ApiFailure("File not found: " \o file_path)
  ELSE IF ~(ApiKeywords \subseteq OrchestratorParams) THEN ApiFailure(TYPE_ERROR_KEYWORD)
  ELSE IF orch.raised THEN ApiFailure(ExcMsg)
  ELSE IF ResultKind # "dict" THEN ApiFailure(TYPE_ERROR_INDEX)
  ELSE [success |-> TRUE, error |-> None, text |-> orch.text, file_type |-> file_type,
        ocr_used |-> orch.ocr_used]

\* extract_text(file_path, language, handwriting_mode), lines 163-181:
\* result is what extract_from_file returned
extract_text(result) ==
  IF result.success
    THEN [raised |-> FALSE, value |-> result.text]
    ELSE [raised |-> TRUE, value |-> "Text extraction failed: " \o result.error]

(***************************************************************************)
(* The slide traversal of extract_text_from_ppt, lines 480-497.  A slide   *)
(* is the sequence of its shapes; a shape has a kind ("title" for the      *)
(* title placeholder, "text" for a shape with a text frame, "picture" for  *)
(* one without a text attribute) and a text.                               *)
(***************************************************************************)
\* slide.shapes.title: the positions of the title placeholder
TitleShapes(slide) == {i \in DOMAIN slide : slide[i].kind = "title"}

\* lines 489-494: the lines of the shapes of a slide from shape i on
RECURSIVE ShapeLines(_, _)
ShapeLines(slide, i) ==
  IF i > Len(slide) THEN <<>>
  ELSE IF slide[i].kind # "picture" /\ Truthy(slide[i].text) /\ i \notin TitleShapes(slide)
    THEN <<slide[i].text>> \o ShapeLines(slide, i + 1)
  ELSE ShapeLines(slide, i + 1)

\* lines 482-494: slide_text of the slide numbered slide_idx
SlideLines(slide, slide_idx) ==
  <<"--- Slide " \o ToString(slide_idx) \o " ---">>
  \o (IF TitleShapes(slide) # {}
        THEN <<"Title: " \o slide[CHOOSE i \in TitleShapes(slide) : TRUE].text>>
        ELSE <<>>)
  \o ShapeLines(slide, 1)

\* "\n\n".join(slide_texts)
RECURSIVE JoinSlides(_)
JoinSlides(slide_texts) ==
  IF Len(slide_texts) = 0 THEN ""
  ELSE IF Len(slide_texts) = 1 THEN slide_texts[1]
  ELSE slide_texts[1] \o "\n\n" \o JoinSlides(Tail(slide_texts))

\* lines 480-498: extracted_text for the slides of a presentation
PptText(slides) ==
  JoinSlides([i \in DOMAIN slides |-> JoinLines(SlideLines(slides[i], i))])

(***************************************************************************)
(* Bounds and input sets                                                   *)
(***************************************************************************)
MaxPages == 2

PdfOcrLibs == {"fitz", "PyPDF2", "pdf2image", "PIL", "pytesseract", "easyocr"}
OtherLibs  == {"docx2txt", "docx", "pptx", "pandas", "odf", "bs4", "striprtf",
               "ebooklib", "extract_msg"}

\* the capability sets tried: every combination of the PDF, image and OCR
\* libraries, and the other libraries all present, all missing, or all
\* but one present
AvailSets ==
  {S \cup OtherLibs : S \in SUBSET PdfOcrLibs} \cup {{}, PdfOcrLibs}
  \cup {(PdfOcrLibs \cup OtherLibs) \ {l} : l \in OtherLibs}

Langs == {"eng", "fra"}

\* text layers of a page: none, and some text
PageTexts == {"", "Abc"}

PageSeqs == UNION {[1..n -> PageTexts] : n \in 0..MaxPages}

PdfDocs ==
  {[pages |-> ps, mu_fail |-> m, py_fail |-> q] :
     ps \in PageSeqs, m \in {-1, 0, MaxPages}, q \in {-1, MaxPages}}

\* the documents tried where the request differs only in how the tag is found
FewPdfDocs ==
  {[pages |-> <<"Abc">>, mu_fail |-> -1, py_fail |-> -1],
   [pages |-> <<"">>, mu_fail |-> -1, py_fail |-> -1]}

NoPdf == [pages |-> <<>>, mu_fail |-> -1, py_fail |-> -1]

StratOutcomes == {Ok("Lorem"), Ok(""), Ok(" "), Exc("")}

Strategies ==
  [s0 : {Ok("Lorem")}, s1 : StratOutcomes, s2 : StratOutcomes]
  \cup {[s0 |-> Exc(""), s1 |-> Ok("Lorem"), s2 |-> Ok("Lorem")]}

NoStrategies == [s0 |-> Ok(""), s1 |-> Ok(""), s2 |-> Ok("")]

ImageFiles == {Ok([width |-> 640, height |-> 480, format |-> "PNG"]),
               Exc([width |-> 0, height |-> 0, format |-> ""])}

NoImage == Exc([width |-> 0, height |-> 0, format |-> ""])

\* library outcomes of the OCR and image calls: all succeed ...
BaseOracle ==
  [tess1 |-> Ok("Hello"), tess2 |-> Ok("Word"), ctor |-> Ok(""), save |-> Ok(""),
   read |-> Ok(<<"Hola">>), open |-> Ok(""), transform |-> Ok(""), tmpsave |-> Ok(""),
   raster |-> "ok", convert |-> Ok(""), load |-> Ok(""),
   img |-> [mode |-> "RGB", px |-> << <<90, 100, 110>> >>]]

\* ... Tesseract finds nothing ...
BlankOracle == [BaseOracle EXCEPT !.tess1 = Ok(""), !.tess2 = Ok(" ")]

\* ... or single calls fail
OcrOracles ==
  { BaseOracle, BlankOracle,
    [BlankOracle EXCEPT !.read = Ok(<<>>)],
    [BlankOracle EXCEPT !.tess1 = Exc(""), !.read = Exc(<<>>)],
    [BlankOracle EXCEPT !.tess1 = Ok(" \n"), !.save = Exc("")],
    [BlankOracle EXCEPT !.tess1 = Exc(""), !.ctor = Exc("")] }

HandwritingOracles ==
  { BaseOracle, BlankOracle,
    [BlankOracle EXCEPT !.tess2 = Ok("Word")],
    [BlankOracle EXCEPT !.tess2 = Exc("")],
    [BlankOracle EXCEPT !.tess2 = Ok(""), !.read = Exc(<<>>)],
    [BlankOracle EXCEPT !.tess1 = Ok(" "), !.tess2 = Exc(""), !.read = Exc(<<>>)],
    [BlankOracle EXCEPT !.tess1 = Exc(""), !.read = Exc(<<>>)] }

RasterOracles ==
  { [BlankOracle EXCEPT !.raster = "pixmap_exc"],
    [BlankOracle EXCEPT !.raster = "save_exc"],
    [BlankOracle EXCEPT !.convert = Exc("")] }

PrepOracles ==
  { BaseOracle, BlankOracle,
    [BlankOracle EXCEPT !.open = Exc("")],
    [BlankOracle EXCEPT !.load = Exc("")],
    [BlankOracle EXCEPT !.transform = Exc("")],
    [BlankOracle EXCEPT !.tmpsave = Exc("")],
    [BlankOracle EXCEPT !.save = Exc("")] }

\* a struct with every option switched off
AllFalseParams == [enhance |-> FALSE, grayscale |-> FALSE, noise_reduction |-> FALSE]

\* preprocess_params of a request, with the library outcomes tried with it
Scenarios ==
  {[params |-> ParamsNone, o |-> o] : o \in OcrOracles \cup RasterOracles}
  \cup {[params |-> [enhance |-> FALSE], o |-> BlankOracle]}
  \cup {[params |-> AllFalseParams, o |-> BlankOracle]}
  \cup {[params |-> [enhance |-> TRUE], o |-> o] : o \in PrepOracles}
  \cup {[params |-> [enhance |-> TRUE, save_temp |-> TRUE], o |-> o] : o \in PrepOracles}

\* paths of uploaded files, and the declared types tried with them
ExtractPaths ==
  {"a.pdf", "b.PDF", "scan.PNG", "pic.heic", "d.docx", "e.doc", "p.pptx", "q.ppt",
   "t.txt", "s.csv", "w.xlsx", "o.ods", "r.rtf", "h.html", "x.xml", "o.odt", "b.epub",
   "m.eml", "m.msg", "c.xyz", "v.svg", "noext", "tmp/upload"}

DeclaredTypes ==
  {"pdf", "PDF", "png", "Jpg", "docx", "pptx", "csv", "xlsx", "txt", "rtf", "htm", "xml",
   "odp", "epub", "eml", "msg", "zip", "unknown", "image", "text"}

ContentTypes ==
  {None, "image/svg+xml", "text/x-python", "application/pdf", "application/msword",
   "application/vnd.ms-powerpoint", "application/vnd.ms-excel", "chemical/x-xyz"}

UpperChar(c) ==
  IF \E k \in 1..26 : LowerChars[k] = c
    THEN UpperChars[CHOOSE k \in 1..26 : LowerChars[k] = c]
    ELSE c

RECURSIVE UpperFrom(_, _)
UpperFrom(s, i) ==
  IF i > Len(s) THEN "" ELSE UpperChar(CharAt(s, i)) \o UpperFrom(s, i + 1)

\* an extension as written, in capitals, and capitalized
CaseVariants(e) == {e, UpperFrom(e, 1), UpperChar(CharAt(e, 1)) \o SubSeq(e, 2, Len(e))}

\* the paths classified: those above, and one per supported extension and
\* letter case
ClassifyPaths ==
  ExtractPaths
  \cup {"dir.v1/f." \o v : v \in UNION {CaseVariants(e) : e \in SupportedExtensions}}
  \cup {".pdf", "docs.pdf/readme", "archive.tar.GZ"}

\* the (file_path, file_type, content type) triples of the calls: every
\* path without a declared type, every declared type on an upload path,
\* a declared type that disagrees with the extension, and an empty one
Requests ==
  {<<p, None, None>> : p \in ExtractPaths}
  \cup {<<p, None, ct>> : p \in {"c.xyz", "tmp/upload"}, ct \in ContentTypes}
  \cup {<<"tmp/upload", t, None>> : t \in DeclaredTypes}
  \cup {<<"d.docx", "pptx", None>>, <<"p.pptx", "docx", None>>, <<"e.doc", "docx", None>>,
        <<"h.html", "", None>>}

\* a key left out of the params, or given one of the values
Opt(key, vals) == {<<>>} \cup {key :> v : v \in vals}

\* the params tried with preprocess_image: None, and every combination of
\* the options left out or set
PrepParams ==
  {ParamsNone}
  \cup {e @@ g @@ c @@ t @@ n @@ st :
          e \in Opt("enhance", BOOLEAN), g \in Opt("grayscale", BOOLEAN),
          c \in Opt("contrast", {10, 20}), t \in Opt("threshold", {0, 100, 255}),
          n \in Opt("noise_reduction", BOOLEAN), st \in Opt("save_temp", {TRUE})}

\* the images tried: colour and grey, with dark, middle and bright pixels
PrepImages ==
  { [mode |-> "RGB", px |-> << <<255, 0, 0>>, <<0, 0, 255>>, <<90, 100, 110>> >>],
    [mode |-> "RGB", px |-> << <<250, 250, 250>>, <<10, 200, 30>>, <<120, 130, 125>> >>],
    [mode |-> "L",   px |-> << <<40>>, <<100>>, <<200>> >>],
    [mode |-> "L",   px |-> << <<0>>, <<255>>, <<101>> >>] }

PrepFailures ==
  { BaseOracle,
    [BaseOracle EXCEPT !.open = Exc("")],
    [BaseOracle EXCEPT !.load = Exc("")],
    [BaseOracle EXCEPT !.transform = Exc("")],
    [BaseOracle EXCEPT !.tmpsave = Exc("")] }

\* the calls of preprocess_image tried: all of them with every library
\* present and with PIL alone missing, two of them otherwise
PrepRequests(libs) ==
  IF libs \in {PdfOcrLibs \cup OtherLibs, (PdfOcrLibs \ {"PIL"}) \cup OtherLibs}
    THEN {[image |-> k, params |-> p, o |-> [o EXCEPT !.img = im]] :
            k \in {"path", "pil"}, p \in PrepParams, o \in PrepFailures, im \in PrepImages}
    ELSE {[image |-> "path", params |-> p, o |-> BaseOracle] :
            p \in {ParamsNone, [enhance |-> TRUE]}}

\* the parts of the messages tried: a plain text, an empty plain text, an
\* HTML text, and an attached text and HTML file
MaxParts == 3

Part(content_type, disposition, payload) ==
  [content_type |-> content_type, disposition |-> disposition, payload |-> payload]

EmailParts ==
  { Part("text/plain", "None", "Plain"),
    Part("text/plain", "None", ""),
    Part("text/html", "None", "<p>Web</p><b>page</b>"),
    Part("text/plain", "attachment; filename=\"notes.txt\"", "Secret"),
    Part("text/html", "attachment; filename=\"a.html\"", "<i>Hid</i>") }

\* multipart messages of up to MaxParts parts in every order, and messages
\* that are not multipart
Messages ==
  {[multipart |-> TRUE, parts |-> ps] :
     ps \in UNION {[1..n -> EmailParts] : n \in 1..MaxParts}}
  \cup {[multipart |-> FALSE, parts |-> <<Part("text/plain", "None", t)>>] :
          t \in {"Plain", ""}}

\* the rows of the CSV files tried: plain cells, an empty cell, a blank
\* line, a cell that holds the separator and a quoted cell over two lines
MaxRows == 2

CsvRows ==
  { <<"a", "b">>, <<"c", "d">>, <<"e">>, <<"", "f">>, <<>>,
    <<"x | y", "z">>, <<"p\nq", "r">> }

CsvTables == UNION {[1..n -> CsvRows] : n \in 0..MaxRows}

\* the slides of the presentations tried: empty, a picture only, a title
\* before and after a text shape, an empty title, an empty text shape, and
\* two text shapes
MaxSlides == 2

Shape(kind, text) == [kind |-> kind, text |-> text]

PptSlides ==
  { <<>>,
    <<Shape("picture", "")>>,
    <<Shape("title", "Intro"), Shape("text", "Body")>>,
    <<Shape("text", "Body"), Shape("title", "Intro"), Shape("picture", "")>>,
    <<Shape("title", ""), Shape("picture", "")>>,
    <<Shape("text", "")>>,
    <<Shape("text", "Body"), Shape("text", "More")>> }

Presentations == UNION {[1..n -> PptSlides] : n \in 0..MaxSlides}

\* the language codes of successive initialize_easyocr calls: Tesseract-style
\* codes of the table, an EasyOCR code and a code the table does not hold
MaxInits == 3
InitLangs == {"eng", "en", "fra", "la"}

\* the batches tried: up to MaxBatch distinct paths, two of them with the
\* same file name in different directories; at most one path does not
\* exist; the files hold a text that can be read or one that cannot
MaxBatch == 3
BatchPaths == {"a/t.txt", "b/t.txt", "a/u.txt", "t.txt"}

Batches ==
  {s \in UNION {[1..n -> BatchPaths] : n \in 0..MaxBatch} :
     \A i, j \in DOMAIN s : i # j => s[i] # s[j]}

BatchFiles ==
  {[content_type |-> None, pdf |-> NoPdf, img |-> NoImage, x |-> x] :
     x \in {[s0 |-> Ok("Lorem"), s1 |-> Ok(""), s2 |-> Ok("")],
            [s0 |-> Exc(""), s1 |-> Ok(""), s2 |-> Ok("")]}}

\* the file contents tried for a branch of the dispatch
FilesFor(branch, file_path, content_type) ==
  CASE branch = "pdf" ->
         {[content_type |-> content_type, pdf |-> d, img |-> NoImage, x |-> NoStrategies] :
            d \in IF file_path = "a.pdf" THEN PdfDocs ELSE FewPdfDocs}
    [] branch = "image" ->
         {[content_type |-> content_type, pdf |-> NoPdf, img |-> i, x |-> NoStrategies] :
            i \in ImageFiles}
    [] branch = "else" ->
         {[content_type |-> content_type, pdf |-> NoPdf, img |-> NoImage, x |-> NoStrategies]}
    [] OTHER ->
         {[content_type |-> content_type, pdf |-> NoPdf, img |-> NoImage, x |-> x] :
            x \in Strategies}

\* the OCR options tried for a branch: they matter to the PDF and image
\* branches only
CallsFor(branch) ==
  IF branch \in {"pdf", "image"}
    THEN {[use_ocr |-> TRUE, language |-> "eng", params |-> s.params, o |-> s.o] :
            s \in Scenarios}
         \cup {[use_ocr |-> TRUE, language |-> "fra", params |-> ParamsNone, o |-> BlankOracle]}
         \cup {[use_ocr |-> FALSE, language |-> "eng", params |-> p, o |-> BaseOracle] :
                 p \in {ParamsNone, [enhance |-> TRUE]}}
    ELSE {[use_ocr |-> u, language |-> "eng", params |-> ParamsNone, o |-> BaseOracle] :
            u \in BOOLEAN}

(***************************************************************************)
(* The process: capability flags are fixed at import; then one call of the *)
(* public functions is made.                                               *)
(***************************************************************************)
Idle == [op |-> "none"]

Init ==
  /\ avail \in AvailSets
  /\ easyocr_reader = None
  /\ temp_files = 0
  /\ req = Idle
  /\ res = Idle
  /\ thr = <<>>

\* a call of detect_file_type(file_path)
DetectFileType ==
  /\ req.op = "none"
  /\ \E file_path \in ClassifyPaths :
     \E content_type \in IF file_path \in ExtractPaths THEN ContentTypes
                                                        ELSE {None, "image/svg+xml"} :
       /\ req' = [op |-> "detect_file_type", file_path |-> file_path,
                  content_type |-> content_type]
       /\ res' = [op |-> "detect_file_type", raised |-> FALSE,
                  tag |-> detect_file_type(file_path, content_type)]
  /\ UNCHANGED <<avail, easyocr_reader, temp_files, thr>>

\* a call of perform_ocr(image, language, handwriting_mode)
PerformOcr ==
  /\ req.op = "none"
  /\ \E image \in {"path", "pil", "other"}, language \in Langs, handwriting_mode \in BOOLEAN :
     \E o \in IF handwriting_mode THEN HandwritingOracles ELSE OcrOracles :
     \E r \in {perform_ocr(image, language, handwriting_mode, easyocr_reader, o)} :
       /\ req' = [op |-> "perform_ocr", image |-> image, language |-> language,
                  handwriting_mode |-> handwriting_mode, o |-> o]
       /\ res' = [op |-> "perform_ocr", raised |-> r.raised, text |-> r.text,
                  attempts |-> r.attempts, used |-> r.used,
                  created |-> r.created, deleted |-> r.deleted]
       /\ easyocr_reader' = r.reader
       /\ temp_files' = temp_files + r.created - r.deleted
  /\ UNCHANGED <<avail, thr>>

\* a call of extract_text_from_file(...)
ExtractTextFromFile ==
  /\ req.op = "none"
  /\ \E q \in Requests :
       \E branch \in {Dispatch(Lower(IF q[2] \in {None, ""}
                                       THEN detect_file_type(q[1], q[3]) ELSE q[2]))} :
       \E f \in FilesFor(branch, q[1], q[3]), c \in CallsFor(branch) :
       \E r \in {extract_text_from_file(q[1], q[2], f, c, easyocr_reader)} :
         /\ req' = [op |-> "extract_text_from_file", file_path |-> q[1],
                    file_type |-> q[2], use_ocr |-> c.use_ocr,
                    language |-> c.language, params |-> c.params, f |-> f, o |-> c.o]
         /\ res' = [op |-> "extract_text_from_file", raised |-> r.raised,
                    text |-> r.text, ocr_used |-> r.ocr_used, logs |-> r.logs,
                    tag |-> r.tag, entered |-> r.entered, calls |-> r.calls,
                    created |-> r.created, deleted |-> r.deleted,
                    tried |-> r.tried, ocr_pages |-> r.ocr_pages, prep |-> r.prep]
         /\ easyocr_reader' = r.reader
         /\ temp_files' = temp_files + r.created - r.deleted
  /\ UNCHANGED <<avail, thr>>

\* a call of preprocess_image(image_path, params); the file that save_temp
\* makes stays on disk
PreprocessImage ==
  /\ req.op = "none"
  /\ \E q \in PrepRequests(avail) :
     \E r \in {preprocess_image(q.image, q.params, q.o)} :
       /\ req' = [op |-> "preprocess_image", image |-> q.image, params |-> q.params,
                  o |-> q.o]
       /\ res' = [op |-> "preprocess_image", raised |-> r.raised, ret |-> r.ret,
                  steps |-> r.steps, out |-> r.out, created |-> r.created]
       /\ temp_files' = temp_files + r.created
  /\ UNCHANGED <<avail, easyocr_reader, thr>>

\* a call of extract_text_from_email(email_path, 'eml') on a message
ExtractTextFromEmail ==
  /\ req.op = "none"
  /\ \E m \in Messages :
     \E r \in {extract_text_from_email("eml",
                 [s0 |-> Ok(""), s1 |-> Ok(EmlBody(m)), s2 |-> Ok("")])} :
       /\ req' = [op |-> "extract_text_from_email", msg |-> m]
       /\ res' = [op |-> "extract_text_from_email", raised |-> FALSE,
                  text |-> r.text, logs |-> r.logs, body |-> EmlBody(m)]
  /\ UNCHANGED <<avail, easyocr_reader, temp_files, thr>>

\* a call of extract_text_from_spreadsheet(file_path, "csv") on a file
\* that csv.reader parses into rows
ExtractTextFromSpreadsheet ==
  /\ req.op = "none"
  /\ \E rows \in CsvTables :
     \E r \in {extract_text_from_spreadsheet("csv",
                 [s0 |-> Ok(""), s1 |-> Ok(CsvText(rows, 1)), s2 |-> Ok("")])} :
       /\ req' = [op |-> "extract_text_from_spreadsheet", rows |-> rows]
       /\ res' = [op |-> "extract_text_from_spreadsheet", raised |-> FALSE,
                  text |-> r.text, logs |-> r.logs]
  /\ UNCHANGED <<avail, easyocr_reader, temp_files, thr>>

\* the OCR options extract_text_from_file has by default
DefaultCall == [use_ocr |-> FALSE, language |-> "eng", params |-> ParamsNone, o |-> BaseOracle]

\* a call of TextExtractor.extract_from_file(file_path) and of
\* extract_text(file_path); orch records what extract_text_from_file gives
\* for the file
ExtractFromFile ==
  /\ req.op = "none"
  /\ \E file_path \in ExtractPaths, exists \in BOOLEAN :
     \E f \in FilesFor(Dispatch(Lower(detect_file_type(file_path, None))), file_path, None) :
     \E orch \in {extract_text_from_file(file_path, None, f, DefaultCall, easyocr_reader)} :
     \E r \in {extract_from_file(file_path, exists, detect_file_type(file_path, None), orch)} :
       /\ req' = [op |-> "extract_from_file", file_path |-> file_path,
                  exists |-> exists, f |-> f]
       /\ res' = [op |-> "extract_from_file", result |-> r,
                  orch |-> [raised |-> orch.raised, text |-> orch.text,
                            ocr_used |-> orch.ocr_used],
                  raised |-> extract_text(r).raised]
  /\ UNCHANGED <<avail, easyocr_reader, temp_files, thr>>

\* a call of extract_text_from_ppt(ppt_path) on a .pptx file with the slides
ExtractTextFromPpt ==
  /\ req.op = "none"
  /\ \E slides \in Presentations :
     \E r \in {extract_text_from_ppt("p.pptx",
                 [s0 |-> Ok(""), s1 |-> Ok(PptText(slides)), s2 |-> Ok("")])} :
       /\ req' = [op |-> "extract_text_from_ppt", slides |-> slides]
       /\ res' = [op |-> "extract_text_from_ppt", raised |-> FALSE,
                  text |-> r.text, logs |-> r.logs,
                  lines |-> [i \in DOMAIN slides |-> SlideLines(slides[i], i)]]
  /\ UNCHANGED <<avail, easyocr_reader, temp_files, thr>>

\* successive calls of initialize_easyocr(lang) in one process, each run to
\* its end before the next begins; the module-level reader stays between calls
InitializeEasyocr ==
  /\ req.op \in {"none", "initialize_easyocr"}
  /\ (IF req.op = "none" THEN 0 ELSE req.n) < MaxInits
  /\ \E lang \in InitLangs, ctor_ok \in BOOLEAN :
     \E r \in {initialize_easyocr(lang, easyocr_reader, ctor_ok)} :
       /\ req' = [op |-> "initialize_easyocr", lang |-> lang,
                  n |-> IF req.op = "none" THEN 1 ELSE req.n + 1]
       /\ res' = [op |-> "initialize_easyocr", raised |-> FALSE, ret |-> r.ret,
                  created |-> r.created, before |-> easyocr_reader]
       /\ easyocr_reader' = r.reader
  /\ UNCHANGED <<avail, temp_files, thr>>

(***************************************************************************)
(* TextExtractor.batch_extract (text_extractor_api.py lines 142-159)       *)
(***************************************************************************)
\* os.path.basename(file_path): what follows the last "/"
Basename(file_path) ==
  LET seps == {i \in 1..Len(file_path) : CharAt(file_path, i) = "/"}
  IN  IF seps = {} THEN file_path
      ELSE SubSeq(file_path, (CHOOSE i \in seps : \A j \in seps : j <= i) + 1,
                  Len(file_path))

\* results[filename] = value: a dict is a function from its keys
SetItem(results, filename, value) ==
  [k \in DOMAIN results \cup {filename} |-> IF k = filename THEN value ELSE results[k]]

\* line 157, right-hand side: self.extract_from_file(file_path, language);
\* present are the paths that exist, f is what the files hold
BatchItem(file_path, present, f) ==
  extract_from_file(file_path, file_path \in present, detect_file_type(file_path, None),
                    extract_text_from_file(file_path, None, f, DefaultCall, None))

\* lines 155-157: the loop over file_paths, from the i-th path on
RECURSIVE BatchLoop(_, _, _, _, _)
BatchLoop(file_paths, i, results, present, f) ==
  IF i > Len(file_paths) THEN results
  ELSE BatchLoop(file_paths, i + 1,
                 SetItem(results, Basename(file_paths[i]),
                         BatchItem(file_paths[i], present, f)),
                 present, f)

\* batch_extract(file_paths): results = {} (line 153), the loop, return
batch_extract(file_paths, present, f) == BatchLoop(file_paths, 1, <<>>, present, f)

\* a call of TextExtractor().batch_extract(file_paths)
BatchExtract ==
  /\ req.op = "none"
  /\ \E file_paths \in Batches, f \in BatchFiles :
     \E missing \in {{}} \cup {{p} : p \in BatchPaths} :
       /\ req' = [op |-> "batch_extract", file_paths |-> file_paths,
                  present |-> BatchPaths \ missing, f |-> f]
       /\ res' = [op |-> "batch_extract", raised |-> FALSE,
                  results |-> batch_extract(file_paths, BatchPaths \ missing, f),
                  each |-> [i \in DOMAIN file_paths |->
                              BatchItem(file_paths[i], BatchPaths \ missing, f)]]
  /\ UNCHANGED <<avail, easyocr_reader, temp_files, thr>>

Next ==
  \/ DetectFileType \/ PerformOcr \/ PreprocessImage \/ ExtractTextFromFile
  \/ ExtractTextFromEmail \/ ExtractTextFromSpreadsheet \/ ExtractFromFile
  \/ ExtractTextFromPpt \/ InitializeEasyocr \/ BatchExtract

Spec == Init /\ [][Next]_vars

(***************************************************************************)
(* Concurrent calls of perform_ocr that reach the EasyOCR part (lines      *)
(* 179-202) and so initialize_easyocr (lines 71-110).  The module-level    *)
(* easyocr_reader is shared and not locked; a thread can be preempted      *)
(* between any two of its reads and writes.                                *)
(***************************************************************************)
NumThreads == 2
MaxCalls   == 2

Threads == 1..NumThreads

IdleThread ==
  [pc |-> "idle", language |-> None, lang |-> None, new |-> None, reader |-> None,
   used |-> None, calls |-> 0]

InitRace ==
  /\ avail = {"easyocr", "PIL"} \cup OtherLibs
  /\ easyocr_reader = None
  /\ temp_files = 0
  /\ req = Idle
  /\ res = Idle
  /\ thr = [t \in Threads |-> IdleThread]

\* line 182, lines 99-101: perform_ocr(image, language) reaches
\* initialize_easyocr(language), which maps the language code
RaceCall(t) ==
  /\ thr[t].pc \in {"idle", "done"}
  /\ thr[t].calls < MaxCalls
  /\ \E language \in Langs :
       thr' = [thr EXCEPT ![t] = [pc |-> "check", language |-> language,
                                  lang |-> MapLang(language), new |-> None,
                                  reader |-> None, used |-> None, calls |-> @.calls + 1]]
  /\ UNCHANGED <<avail, easyocr_reader, temp_files, req, res>>

\* line 105: easyocr_reader is None or easyocr_reader.lang_list != [lang]
RaceCheck(t) ==
  /\ thr[t].pc = "check"
  /\ thr' = [thr EXCEPT ![t].pc =
               IF easyocr_reader = None \/ easyocr_reader # thr[t].lang
                 THEN "create" ELSE "return"]
  /\ UNCHANGED <<avail, easyocr_reader, temp_files, req, res>>

\* line 106, right-hand side: easyocr.Reader([lang], gpu=False) returns a
\* reader, or raises and initialize_easyocr returns None (lines 108-110)
RaceCreate(t) ==
  /\ thr[t].pc = "create"
  /\ \E ok \in BOOLEAN :
       thr' = [thr EXCEPT ![t] = IF ok THEN [@ EXCEPT !.pc = "assign", !.new = thr[t].lang]
                                       ELSE [@ EXCEPT !.pc = "done"]]
  /\ UNCHANGED <<avail, easyocr_reader, temp_files, req, res>>

\* line 106, the assignment to the global
RaceAssign(t) ==
  /\ thr[t].pc = "assign"
  /\ easyocr_reader' = thr[t].new
  /\ thr' = [thr EXCEPT ![t].pc = "return"]
  /\ UNCHANGED <<avail, temp_files, req, res>>

\* line 107: return easyocr_reader, read from the global
RaceReturn(t) ==
  /\ thr[t].pc = "return"
  /\ thr' = [thr EXCEPT ![t].pc = "read", ![t].reader = easyocr_reader]
  /\ UNCHANGED <<avail, easyocr_reader, temp_files, req, res>>

\* lines 184-195: reader.readtext(image) on the reader that was returned
RaceRead(t) ==
  /\ thr[t].pc = "read"
  /\ thr' = [thr EXCEPT ![t].pc = "done", ![t].used = thr[t].reader]
  /\ UNCHANGED <<avail, easyocr_reader, temp_files, req, res>>

NextRace ==
  \E t \in Threads :
    RaceCall(t) \/ RaceCheck(t) \/ RaceCreate(t) \/ RaceAssign(t) \/ RaceReturn(t) \/ RaceRead(t)

SpecRace == InitRace /\ [][NextRace]_vars

(***************************************************************************)
(* Properties                                                              *)
(***************************************************************************)
Extracted == res.op = "extract_text_from_file"
Classified == res.op = "detect_file_type"

ERROR_MARKER == "[Error extracting text: E]"

\* C1: for every tag, declared or detected, and every file,
\* extract_text_from_file does not raise: it returns a text that is a string,
\* a boolean ocr_used and a sequence of log strings, also when the calls of
\* the chosen extractor fail.
C1_NeverRaises ==
  Extracted =>
    /\ ~res.raised
    /\ res.text \in STRING
    /\ res.ocr_used \in BOOLEAN
    /\ \A i \in DOMAIN res.logs : res.logs[i] \in STRING

\* C1 witness: an exception left the image branch and the call returned the
\* error marker
C1_Witness ==
  /\ Extracted
  /\ res.entered = <<"image">>
  /\ res.text = ERROR_MARKER
  /\ ~res.raised

\* the tag a request carries into the dispatch, before lowercasing
GivenTag ==
  IF req.file_type \in {None, ""} THEN res.tag ELSE req.file_type

\* t is s with every capital letter replaced by its small letter
IsLowerOf(t, s) ==
  /\ Len(t) = Len(s)
  /\ \A i \in 1..Len(s) :
       \/ CharAt(s, i) \notin Range(UpperChars) /\ CharAt(t, i) = CharAt(s, i)
       \/ \E k \in 1..26 : CharAt(s, i) = UpperChars[k] /\ CharAt(t, i) = LowerChars[k]

\* C2: in one call the tag is lowercased and at most one extractor branch is
\* entered; none is entered exactly when the lowercased tag matches no row
\* of the dispatch table, and then the text is "[Unsupported file type:
\* <tag>]", ocr_used is False and nothing is raised.
C2_Dispatch ==
  Extracted =>
    /\ IsLowerOf(res.tag, GivenTag)
    /\ Len(res.entered) <= 1
    /\ (res.entered = <<>>) <=> (\A i \in DOMAIN DispatchTable : res.tag \notin DispatchTable[i].tags)
    /\ res.entered = <<>> =>
         /\ res.text = "[Unsupported file type: " \o res.tag \o "]"
         /\ ~res.ocr_used
         /\ ~res.raised

\* C2 witness: a declared tag in capitals is dispatched, and an unmatched
\* declared tag yields the marker
C2_Witness ==
  /\ Extracted
  /\ req.file_type = "zip"
  /\ res.entered = <<>>
  /\ res.text = "[Unsupported file type: zip]"

\* paths whose extension is not in the supported-format table, and content
\* types that belong to none of the coarse categories
UnknownPaths == {"c.xyz", "noext", "tmp/upload"}
UncategorizedTypes == {None, "chemical/x-xyz"}

\* C3: when the extension is not in the supported-format table and the
\* sniffed content type maps to no coarse category, detect_file_type returns
\* "unknown" without raising, and extract_text_from_file on such a file with
\* no declared type returns the placeholder naming the unsupported type,
\* without raising.
C3_Unknown ==
  /\ (Classified /\ req.file_path \in UnknownPaths /\ req.content_type \in UncategorizedTypes)
       => (res.tag = "unknown" /\ ~res.raised)
  /\ (Extracted /\ req.file_type = None /\ req.file_path \in UnknownPaths
        /\ req.f.content_type \in UncategorizedTypes)
       => (res.text = "[Unsupported file type: unknown]" /\ ~res.raised /\ ~res.ocr_used)

\* C3 witness: the .xyz file whose content type is no coarse category
C3_Witness ==
  /\ Extracted
  /\ req.file_path = "c.xyz"
  /\ req.file_type = None
  /\ req.f.content_type = "chemical/x-xyz"
  /\ res.text = "[Unsupported file type: unknown]"

\* C4: for every extension of the supported-format table, written in any
\* letter case, detect_file_type returns the extension in lowercase, whatever
\* the content type sniffed.
C4_SupportedExtension ==
  Classified =>
    \A e \in SupportedExtensions : \A v \in CaseVariants(e) :
      req.file_path = "dir.v1/f." \o v => res.tag = e

\* C4 witness: an extension in capitals, with a content type of another
\* category
C4_Witness ==
  /\ Classified
  /\ req.file_path = "dir.v1/f.DOCX"
  /\ req.content_type = "image/svg+xml"
  /\ res.tag = "docx"

\* the request reached the PDF extractor
PdfCall == Extracted /\ res.entered = <<"pdf">>

PdfPages == req.f.pdf.pages

\* C5: for a PDF with at least one page, none of which has a text layer, and
\* use_ocr=False, the text is the fixed "[No text could be extracted ...]"
\* placeholder and ocr_used is False, whichever PDF libraries are available.
C5_ScannedPdfPlaceholder ==
  (/\ PdfCall
   /\ Len(PdfPages) >= 1
   /\ \A i \in DOMAIN PdfPages : IsBlank(PdfPages[i])
   /\ ~req.use_ocr)
  => (res.text = PDF_NO_TEXT /\ ~res.ocr_used)

\* the PDF has a text layer on every page
TextLayerPdf ==
  /\ PdfCall
  /\ Len(PdfPages) >= 1
  /\ \A i \in DOMAIN PdfPages : ~IsBlank(PdfPages[i])

MarkerText(n) == "--- Page " \o ToString(n) \o " ---"

\* the text has the markers of pages 1..k, in ascending order, and no other
MarkersUpTo(text, k, n) ==
  /\ \A j \in 1..k : Contains(text, MarkerText(j))
  /\ \A j \in 1..(k - 1) : Find(text, MarkerText(j)) < Find(text, MarkerText(j + 1))
  /\ \A j \in (k + 1)..(n + 1) : ~Contains(text, MarkerText(j))
  /\ ~Contains(text, MarkerText(0))

\* C6 as stated: for any PDF with a text layer and use_ocr=False, ocr_used is
\* False and the text has one "--- Page N ---" marker per page, N = 1..page
\* count, in ascending order.
C6_MarkerPerPage ==
  (TextLayerPdf /\ ~req.use_ocr)
  => (~res.ocr_used /\ MarkersUpTo(res.text, Len(PdfPages), Len(PdfPages)))

\* the pages a library reads before it finishes or raises, given the call
\* of it that raises (0 the open, i the read of page i, none otherwise)
PagesRead(present, fail, n) ==
  IF ~present \/ fail = 0 THEN 0
  ELSE IF fail \in 1..n THEN fail - 1
  ELSE n

\* the pages read by the library whose text is returned: PyMuPDF, or PyPDF2
\* when PyMuPDF is missing or raised before it read a page
PagesReturned ==
  LET n  == Len(PdfPages)
      mu == PagesRead("fitz" \in avail, req.f.pdf.mu_fail, n)
  IN  IF mu > 0 THEN mu ELSE PagesRead("PyPDF2" \in avail, req.f.pdf.py_fail, n)

\* C6 amended: for any PDF with a text layer and use_ocr=False, ocr_used is
\* False and the text has the markers "--- Page N ---" of exactly the pages
\* N = 1..k read by the library whose text is returned, in ascending order;
\* k is the page count when that library read every page, and when no page
\* was read the text is the fixed placeholder, without markers.
C6_MarkersOfPagesRead ==
  (TextLayerPdf /\ ~req.use_ocr)
  => /\ ~res.ocr_used
     /\ MarkersUpTo(res.text, PagesReturned, Len(PdfPages))
     /\ PagesReturned = 0 => res.text = PDF_NO_TEXT

\* C6 witness: PyMuPDF reads both pages of a two-page PDF
C6_Witness ==
  /\ TextLayerPdf
  /\ ~req.use_ocr
  /\ Len(PdfPages) = 2
  /\ "fitz" \in avail
  /\ PagesReturned = 2
  /\ Find(res.text, "--- Page 1 ---") > 0
  /\ Find(res.text, "--- Page 1 ---") < Find(res.text, "--- Page 2 ---")

\* the texts of the image branch that are not recognized text: the
\* dimensions and format of the image, or the fixed marker without PIL
MetadataShaped(text) ==
  \/ StartsWith(text, "[Image: ") /\ EndsWith(text, "]\n" \o IMAGE_NO_OCR)
  \/ text = IMAGE_NO_PIL

C8_OcrUnavailable ==
  /\ (res.op = "perform_ocr" /\ "pytesseract" \notin avail /\ "easyocr" \notin avail)
       => (res.text = OCR_UNAVAILABLE /\ res.attempts = <<>>)
  /\ (Extracted /\ res.entered = <<"image">> /\ req.use_ocr
        /\ "pytesseract" \notin avail /\ "easyocr" \notin avail)
       => (res.text = OCR_UNAVAILABLE /\ res.ocr_used)

\* C9: every temporary file created during one call of
\* extract_text_from_file has been deleted when the call returns, on every
\* exit path.
C9_TempFilesDeleted ==
  Extracted => (res.deleted = res.created /\ temp_files = 0)

\* C10: under any interleaving of concurrent perform_ocr calls that request
\* different languages and reach EasyOCR, every call that recognizes does so
\* with a reader loaded for its own normalized language.
C10_OwnLanguageReader ==
  \A t \in DOMAIN thr :
    (thr[t].pc = "done" /\ thr[t].used # None) => thr[t].used = thr[t].lang

(***************************************************************************)
(* Properties of perform_ocr                                               *)
(***************************************************************************)
Recognized == res.op = "perform_ocr"

\* the first Tesseract attempt raised / returned no non-whitespace text
PrimaryThrew == req.o.tess1.exc \/ (req.image = "path" /\ ~has_pil)
PrimaryBlank == ~PrimaryThrew /\ IsBlank(req.o.tess1.val)

\* the "--psm 8" retry returned, and what it returned has text
RetryFound == ~req.o.tess2.exc /\ ~IsBlank(req.o.tess2.val)

\* Tesseract is available and gives no text: it raises or returns blank
PrimaryFails ==
  /\ has_pytesseract
  /\ \/ PrimaryThrew
     \/ PrimaryBlank /\ (req.handwriting_mode => ~RetryFound)

\* ocr_text when the EasyOCR part is entered
TextBefore ==
  IF ~has_pytesseract \/ PrimaryThrew THEN ""
  ELSE IF req.handwriting_mode /\ ~req.o.tess2.exc THEN req.o.tess2.val
  ELSE req.o.tess1.val

\* no reader exists before the call, so the reader has to be created
SecondaryInitFails == req.o.ctor.exc

\* image.save or reader.readtext raises
SecondaryRaises ==
  /\ ~SecondaryInitFails
  /\ \/ req.image = "path" /\ req.o.read.exc
     \/ req.image = "pil" /\ has_pil /\ (req.o.save.exc \/ req.o.read.exc)

SecondaryBlank ==
  /\ ~SecondaryInitFails
  /\ req.image = "path" \/ (req.image = "pil" /\ has_pil)
  /\ ~SecondaryRaises
  /\ IsBlank(JoinLines(req.o.read.val))

SecondaryFails ==
  has_easyocr /\ (SecondaryInitFails \/ SecondaryRaises \/ SecondaryBlank)

\* a backend is available and every available backend fails or finds nothing
AllBackendsFail ==
  /\ is_ocr_available
  /\ has_pytesseract => PrimaryFails
  /\ has_easyocr => SecondaryFails

\* C11 as stated: when a backend is available and every available backend
\* raises, cannot be initialized or returns blank output, perform_ocr returns
\* exactly "[No text was detected in this image.]"; the result is never
\* empty or whitespace-only.
C11_NoTextPlaceholder ==
  Recognized =>
    /\ AllBackendsFail => res.text = OCR_NO_TEXT
    /\ ~IsBlank(res.text)

\* C11: when a backend is available and every available backend raises,
\* cannot be initialized or returns blank output, perform_ocr returns
\* "[OCR processing failed: <message>]" if EasyOCR's save or readtext raised
\* while ocr_text was still the empty string, and
\* "[No text was detected in this image.]" otherwise; the result is never
\* empty or whitespace-only.
C11_NoTextOrFailureMarker ==
  Recognized =>
    /\ AllBackendsFail =>
         res.text = IF has_easyocr /\ SecondaryRaises /\ TextBefore = ""
                      THEN "[OCR processing failed: " \o ExcMsg \o "]"
                      ELSE OCR_NO_TEXT
    /\ ~IsBlank(res.text)

\* C11 witness: both backends are installed, Tesseract returned whitespace,
\* EasyOCR raised, and the no-text placeholder was returned
C11_Witness ==
  /\ Recognized
  /\ has_pytesseract /\ has_easyocr
  /\ AllBackendsFail
  /\ PrimaryBlank /\ SecondaryRaises
  /\ res.attempts = <<"tesseract", "easyocr">>
  /\ res.text = OCR_NO_TEXT

\* C12: whichever backends are installed and whichever of their calls raise
\* (image_to_string, the "--psm 8" retry, easyocr.Reader, image.save,
\* readtext), perform_ocr does not raise and returns a string.
C12_NoBackendException ==
  Recognized => ~res.raised /\ res.text \in STRING

\* C12 witness: Tesseract raised, then readtext raised, and a string came
\* back
C12_Witness ==
  /\ Recognized
  /\ has_pytesseract /\ has_easyocr
  /\ req.o.tess1.exc /\ SecondaryRaises
  /\ res.attempts = <<"tesseract", "easyocr">>
  /\ ~res.raised
  /\ res.text = "[OCR processing failed: " \o ExcMsg \o "]"

\* the place of an attempt in the order primary, retry, secondary
AttemptRank(a) ==
  CASE a = "tesseract" -> 1 [] a = "tesseract_psm8" -> 2 [] OTHER -> 3

SecondaryAttempted == Range(res.attempts) \cap {"easyocr_init", "easyocr"} # {}

\* C13: the attempts of one perform_ocr call are in the order Tesseract,
\* "--psm 8" retry, EasyOCR, each at most once; the retry is made exactly
\* when handwriting_mode is set and the first Tesseract attempt returned
\* blank text; EasyOCR is attempted only if Tesseract is missing, raised or
\* found no non-whitespace text; no attempt follows one that returned
\* non-whitespace text.
C13_AttemptOrder ==
  Recognized =>
    /\ \A i, j \in DOMAIN res.attempts :
         i < j => AttemptRank(res.attempts[i]) < AttemptRank(res.attempts[j])
    /\ "tesseract_psm8" \in Range(res.attempts)
         <=> (has_pytesseract /\ req.handwriting_mode /\ PrimaryBlank)
    /\ SecondaryAttempted => (~has_pytesseract \/ PrimaryFails)
    /\ (has_pytesseract /\ ~PrimaryThrew /\ ~PrimaryBlank)
         => res.attempts = <<"tesseract">> /\ res.text = req.o.tess1.val
    /\ (has_pytesseract /\ req.handwriting_mode /\ PrimaryBlank /\ RetryFound)
         => res.attempts = <<"tesseract", "tesseract_psm8">> /\ res.text = req.o.tess2.val

\* C13 witness: all three attempts were made, in this order
C13_Witness ==
  /\ Recognized
  /\ req.handwriting_mode
  /\ res.attempts = <<"tesseract", "tesseract_psm8", "easyocr">>

(***************************************************************************)
(* Properties of preprocess_image                                          *)
(***************************************************************************)
Preprocessed == res.op = "preprocess_image"

\* the params the call works with
InForce == ParamsOrDefault(req.params)

\* preprocess_image got as far as the enhance branch
Opened == has_pil /\ ~(req.image = "path" /\ req.o.open.exc)

\* the call returned a processed image
Processed == Preprocessed /\ Opened /\ ~res.raised

\* the place of a transform in the documented order
StepRank(st) ==
  CASE st = "color" -> 1 [] st = "grayscale" -> 2 [] st = "contrast" -> 3
    [] st = "threshold" -> 4 [] st = "denoise" -> 5

Bimodal(img) ==
  \A i \in DOMAIN img.px : \A c \in DOMAIN img.px[i] : img.px[i][c] \in {0, 255}

\* C14: when enhance is on, the transforms applied are the enabled ones
\* (colour conversion for a non-RGB image, grayscale, contrast unless the
\* factor is 1.0, threshold when grayscale is on and a threshold is given,
\* noise reduction) in the order color, grayscale, contrast, threshold,
\* denoise; with grayscale on and a threshold given, the output is a
\* grayscale image whose pixels are all 0 or 255.
C14_FixedOrder ==
  (Processed /\ Get(InForce, "enhance", FALSE)) =>
    /\ \A i, j \in DOMAIN res.steps :
         i < j => StepRank(res.steps[i]) < StepRank(res.steps[j])
    /\ "color" \in Range(res.steps) <=> req.o.img.mode # "RGB"
    /\ "grayscale" \in Range(res.steps) <=> Get(InForce, "grayscale", TRUE)
    /\ "contrast" \in Range(res.steps) <=> Get(InForce, "contrast", 15) # 10
    /\ "threshold" \in Range(res.steps)
         <=> (Get(InForce, "grayscale", TRUE) /\ "threshold" \in DOMAIN InForce)
    /\ "denoise" \in Range(res.steps) <=> Get(InForce, "noise_reduction", TRUE)
    /\ (Get(InForce, "grayscale", TRUE) /\ "threshold" \in DOMAIN InForce)
         => res.out.mode = "L" /\ Bimodal(res.out)

\* every option of the struct is there and off
AllFalse(p) ==
  /\ "is_none" \notin DOMAIN p
  /\ {"enhance", "grayscale", "noise_reduction"} \subseteq DOMAIN p
  /\ ~p.enhance /\ ~p.grayscale /\ ~p.noise_reduction

\* an extraction that recognized at least one stored image
OcrExtraction == Extracted /\ res.calls > 0

DecodeFails ==
  /\ req.o.load.exc
  /\ \/ EnhanceSteps(InForce, req.o.img.mode) # <<>>
     \/ Get(InForce, "save_temp", FALSE)

\* C16: preprocess_image does not raise and applies no transform when PIL
\* is missing, where it returns its argument, and when the image at the
\* path cannot be opened or decoded, where it returns the path.
C16_NonFatal ==
  Preprocessed =>
    /\ ~has_pil => (~res.raised /\ res.ret = req.image /\ res.steps = <<>>)
    /\ (has_pil /\ req.image = "path" /\ (req.o.open.exc \/ DecodeFails))
         => (~res.raised /\ res.ret = "path" /\ res.steps = <<>>)

(***************************************************************************)
(* Properties of the format extractors                                     *)
(***************************************************************************)
\* the call went to the extractor of a branch of the dispatch
Entered(branch) == Extracted /\ res.entered = <<branch>>

\* a strategy was attempted; an entry is in the returned logs
Tried(method) == method \in Range(res.tried)
Logged(entry) == entry \in Range(res.logs)

\* the outcome of a library call is an exception or a blank text
Failed(outcome) == outcome.exc \/ IsBlank(outcome.val)

\* a text-layer strategy of the PDF extractor raised or found no text
PdfStrategyFailed(lib) ==
  \/ Logged(lib \o " extraction failed: " \o ExcMsg)
  \/ Logged("No text extracted with " \o lib)

PdfTextLayerFailed ==
  /\ PdfStrategyFailed("PyMuPDF") \/ PdfStrategyFailed("PyPDF2")
  /\ ~Logged("Successfully extracted text from PDF using PyMuPDF")
  /\ ~Logged("Successfully extracted text from PDF using PyPDF2")

\* PDF: PyMuPDF, then PyPDF2, then the OCR of the whole document
PdfContinues ==
  Entered("pdf") =>
    /\ (PdfStrategyFailed("PyMuPDF") /\ has_pypdf2) => Tried("PyPDF2")
    /\ (PdfTextLayerFailed /\ req.use_ocr /\ has_pdf2image) => Tried("pdf2image")

\* word-processor document: docx2txt, then python-docx
DocContinues ==
  (Entered("doc") /\ Tried("docx2txt") /\ Failed(req.f.x.s1) /\ has_python_docx)
    => Tried("python-docx")

\* rich text: striprtf, then the regex fallback
RtfContinues ==
  (Entered("rtf") /\ Tried("striprtf") /\ Failed(req.f.x.s1)) => Tried("regex")

\* HTML: BeautifulSoup, then the regex tag removal
HtmlContinues ==
  (Entered("html") /\ Tried("BeautifulSoup") /\ req.f.x.s1.exc) => Tried("regex")

\* XML: ElementTree, then the regex fallback
XmlContinues ==
  (Entered("xml") /\ Tried("ElementTree") /\ req.f.x.s1.exc) => Tried("regex")

\* C17: in the PDF, document, RTF, HTML and XML extractors, when a strategy
\* raised or yielded blank text and a later strategy is available, that
\* strategy is attempted before the extractor returns.
C17_WaterfallContinues ==
  PdfContinues /\ DocContinues /\ RtfContinues /\ HtmlContinues /\ XmlContinues

\* the branches of the dispatch that call a format extractor
ExtractorBranches ==
  {"pdf", "doc", "ppt", "spreadsheet", "rtf", "html", "xml", "odf", "epub", "email"}

\* "[...]"
Bracketed(text) == StartsWith(text, "[") /\ EndsWith(text, "]")

\* an attempted strategy gave no text of the file: its library call raised
\* or, where the extractor returns the library's text as it is, gave a
\* blank text
MethodFailed(method) ==
  CASE method \in {"docx2txt", "python-pptx", "csv", "pandas", "striprtf"} ->
         Failed(req.f.x.s1)
    [] method \in {"BeautifulSoup", "ElementTree", "ebooklib", "email", "extract_msg"} ->
         req.f.x.s1.exc
    [] method = "odfpy" ->
         IF Entered("odf") THEN Failed(req.f.x.s1) ELSE Failed(req.f.x.s2)
    [] method \in {"python-docx", "regex"} -> Failed(req.f.x.s2)
    [] OTHER -> FALSE

\* no strategy of the extractor yielded text
TotalFailure ==
  IF Entered("pdf")
    THEN /\ ~Logged("Successfully extracted text from PDF using PyMuPDF")
         /\ ~Logged("Successfully extracted text from PDF using PyPDF2")
         /\ ~Logged("Completed full document OCR using pdf2image and OCR")
    ELSE \A method \in Range(res.tried) : MethodFailed(method)

\* the extractor of a branch returns a text that is not blank, a bracketed
\* marker when no strategy yielded text, and no exception leaves it
FailsSoftly(branch) ==
  Entered(branch) =>
    /\ ~res.raised
    /\ res.text # ERROR_MARKER
    /\ ~IsBlank(res.text)
    /\ TotalFailure => Bracketed(res.text)

\* C18: when no strategy of a format extractor yielded non-blank text, the
\* text returned is a bracketed placeholder; an extractor returns no blank
\* text and raises nothing.
C18_PlaceholderOnTotalFailure == \A branch \in ExtractorBranches : FailsSoftly(branch)

\* the logs hold an entry that says the library is not available
SkipLogged(library) ==
  \E i \in DOMAIN res.logs :
    Contains(res.logs[i], library) /\ Contains(res.logs[i], "not available")

\* the path of the request ends in the extension, in any letter case
PathEndsWith(ext) == EndsWith(Lower(req.file_path), ext)

\* the library-missing skips of the PDF extractor
PdfSkipsLogged ==
  Entered("pdf") =>
    /\ ~has_pymupdf => SkipLogged("PyMuPDF")
    /\ (~has_pypdf2 /\ ~Logged("Successfully extracted text from PDF using PyMuPDF"))
         => SkipLogged("PyPDF2")
    /\ (~has_pdf2image
        /\ Logged("PDF appears to be scanned/image-based. Attempting full document OCR."))
         => SkipLogged("pdf2image")

\* those of the document extractor
DocSkipsLogged ==
  (Entered("doc") /\ PathEndsWith(".docx")) =>
    /\ ~has_docx2txt => SkipLogged("docx2txt")
    /\ (~has_python_docx /\ ~Logged("Successfully extracted text using docx2txt"))
         => SkipLogged("python-docx")

\* those of the spreadsheet extractor
SpreadsheetSkipsLogged ==
  (Entered("spreadsheet") /\ res.tag \in {"xlsx", "xls", "ods"}) =>
    /\ ~has_pandas => SkipLogged("pandas")
    /\ (res.tag = "ods" /\ ~has_odf /\ (~Tried("pandas") \/ req.f.x.s1.exc))
         => SkipLogged("odfpy")

\* those of the extractors with one library
OtherSkipsLogged ==
  /\ (Entered("ppt") /\ PathEndsWith(".pptx") /\ ~has_python_pptx) => SkipLogged("python-pptx")
  /\ (Entered("rtf") /\ ~has_striprtf) => SkipLogged("striprtf")
  /\ (Entered("html") /\ ~req.f.x.s0.exc /\ ~has_bs4) => SkipLogged("BeautifulSoup")
  /\ (Entered("odf") /\ ~has_odf) => SkipLogged("odfpy")
  /\ (Entered("epub") /\ ~has_ebooklib) => SkipLogged("ebooklib")
  /\ (Entered("email") /\ res.tag = "msg" /\ ~has_extract_msg) => SkipLogged("extract_msg")

\* C19: when an extractor skips a strategy because its library is missing,
\* the logs it returns hold an entry that records the skip.
C19_SkipLogged ==
  PdfSkipsLogged /\ DocSkipsLogged /\ SpreadsheetSkipsLogged /\ OtherSkipsLogged

(***************************************************************************)
(* Properties of the returned logs                                         *)
(***************************************************************************)
\* a file_type was passed to the call
Supplied == req.file_type \notin {None, ""}

AUTO_DETECTED == "Auto-detected file type: "

\* the OCR options of the request
OcrOptions ==
  [use_ocr |-> req.use_ocr, language |-> req.language, params |-> req.params, o |-> req.o]

\* the logs the extractor of the branch entered emits for the file
ExtractorLogs ==
  CASE Entered("pdf") -> extract_text_from_pdf(req.f.pdf, OcrOptions, None).logs
    [] Entered("doc") -> extract_text_from_doc(req.file_path, req.f.x).logs
    [] Entered("ppt") -> extract_text_from_ppt(req.file_path, req.f.x).logs
    [] Entered("spreadsheet") -> extract_text_from_spreadsheet(res.tag, req.f.x).logs
    [] Entered("rtf") -> extract_text_from_rtf(req.f.x).logs
    [] Entered("html") -> extract_text_from_html(req.f.x).logs
    [] Entered("xml") -> extract_text_from_xml(req.f.x).logs
    [] Entered("odf") -> extract_text_from_odf(req.f.x).logs
    [] Entered("epub") -> extract_text_from_epub(req.f.x).logs
    [] Entered("email") -> extract_text_from_email(res.tag, req.f.x).logs

\* the logs start with the entries
BeginsWith(logs, entries) ==
  Len(logs) >= Len(entries) /\ SubSeq(logs, 1, Len(entries)) = entries

\* C20: the logs extract_text_from_file returns are the auto-detection
\* entry naming the tag, present exactly when no file_type was passed, and
\* after it the entries of the chosen extractor in the order it emitted
\* them; the auto-detection entry occurs nowhere else.
C20_LogOrder ==
  Extracted =>
    /\ ~Supplied => BeginsWith(res.logs, <<AUTO_DETECTED \o res.tag>>)
    /\ \A i \in DOMAIN res.logs :
         StartsWith(res.logs[i], AUTO_DETECTED) => (i = 1 /\ ~Supplied)
    /\ (\E branch \in ExtractorBranches : Entered(branch)) =>
         res.logs = (IF Supplied THEN <<>> ELSE <<AUTO_DETECTED \o res.tag>>)
                    \o ExtractorLogs

\* C20 witness: an auto-detected .docx whose first strategy found nothing
\* and whose second succeeded
C20_Witness ==
  /\ Entered("doc")
  /\ ~Supplied
  /\ res.logs = <<"Auto-detected file type: docx",
                  "Attempting to extract text using docx2txt",
                  "No text extracted with docx2txt",
                  "Attempting to extract text using python-docx",
                  "Successfully extracted text using python-docx">>

(***************************************************************************)
(* Properties of the e-mail body                                           *)
(***************************************************************************)
EmailExtracted == res.op = "extract_text_from_email" /\ req.msg.multipart

Attached(part) == Contains(part.disposition, "attachment")

\* the parts of the message that are not attachments
BodyParts == {i \in DOMAIN req.msg.parts : ~Attached(req.msg.parts[i])}

HasPlainPart == \E i \in BodyParts : req.msg.parts[i].content_type = "text/plain"

\* the body holds the text of the HTML part
HtmlInBody == Contains(res.body, "Web")

\* no attached part leaves its text in the body
AttachmentsSkipped ==
  EmailExtracted =>
    ~Contains(res.body, "Secret") /\ ~Contains(res.body, "Hid")

\* C21: in a multipart e-mail an attached part contributes nothing to the
\* body, and the body holds HTML-derived text only if the message has no
\* plain-text part that is not an attachment, whatever the order of the
\* parts.
C21_PlainPreferred ==
  /\ AttachmentsSkipped
  /\ (EmailExtracted /\ HtmlInBody) => ~HasPlainPart

(***************************************************************************)
(* Properties of the CSV output                                            *)
(***************************************************************************)
CsvExtracted == res.op = "extract_text_from_spreadsheet"

\* s.split(sep)
RECURSIVE SplitOn(_, _)
SplitOn(s, sep) ==
  IF Find(s, sep) = 0 THEN <<s>>
  ELSE <<SubSeq(s, 1, Find(s, sep) - 1)>>
       \o SplitOn(SubSeq(s, Find(s, sep) + Len(sep), Len(s)), sep)

\* the lines of a text, each of which ends in a newline
TextLines(text) ==
  IF text = "" THEN <<>>
  ELSE SubSeq(SplitOn(text, "\n"), 1, Len(SplitOn(text, "\n")) - 1)

\* the pipe-delimited parse of a text
ParsePiped(text) ==
  [i \in DOMAIN TextLines(text) |-> SplitOn(TextLines(text)[i], " | ")]

\* C22: the CSV output has one line per row, in row order, each line the
\* row's cells joined by " | ", and splitting it on newlines and on " | "
\* gives the rows back.
C22_CsvRoundTrip ==
  CsvExtracted =>
    /\ Len(TextLines(res.text)) = Len(req.rows)
    /\ \A i \in DOMAIN req.rows : TextLines(res.text)[i] = JoinCells(req.rows[i])
    /\ ParsePiped(res.text) = req.rows

(***************************************************************************)
(* Properties of the API wrapper                                           *)
(***************************************************************************)
ApiExtracted == res.op = "extract_from_file"

\* C23: for an existing file extract_from_file returns success=True with
\* the text and ocr_used of extract_text_from_file; success=False comes
\* only with a missing file or a raising extraction, and extract_text
\* raises only then.
C23_ApiReturnsOrchestratorResult ==
  ApiExtracted =>
    /\ (req.exists /\ ~res.orch.raised) =>
         /\ res.result.success
         /\ res.result.text = res.orch.text
         /\ res.result.ocr_used = res.orch.ocr_used
    /\ ~res.result.success => (~req.exists \/ res.orch.raised)
    /\ res.raised => (~req.exists \/ res.orch.raised)

(***************************************************************************)
(* Properties of the presentation text                                     *)
(***************************************************************************)
PptExtracted == res.op = "extract_text_from_ppt" /\ has_python_pptx

PPT_NO_TEXT ==
  "[No text found in this presentation. It may contain only images or other non-text elements.]"

\* the texts of the shapes of a slide that are not its title and not empty
RECURSIVE OtherTexts(_, _)
OtherTexts(slide, i) ==
  IF i > Len(slide) THEN <<>>
  ELSE IF slide[i].kind = "text" /\ slide[i].text # ""
    THEN <<slide[i].text>> \o OtherTexts(slide, i + 1)
  ELSE OtherTexts(slide, i + 1)

\* no shape of any slide has a text
NoSlideText ==
  \A i \in DOMAIN req.slides : \A j \in DOMAIN req.slides[i] : req.slides[i][j].text = ""

\* the title of a slide is the line after the slide header, the texts of
\* the other shapes follow in their order, and the title occurs once
TitlesFirst ==
  PptExtracted =>
    \A i \in DOMAIN req.slides :
      \A j \in DOMAIN req.slides[i] :
        req.slides[i][j].kind = "title" =>
          res.lines[i] = <<"--- Slide " \o ToString(i) \o " ---",
                           "Title: " \o req.slides[i][j].text>>
                         \o OtherTexts(req.slides[i], 1)

\* C24: the title of a slide is emitted before its other shapes and only
\* once, and when no slide holds a title or shape text the result is the
\* "no text found" marker.
C24_TitlesFirstOrNoText ==
  /\ TitlesFirst
  /\ (PptExtracted /\ NoSlideText) => res.text = PPT_NO_TEXT

(***************************************************************************)
(* Properties of the OCR of PDF pages                                      *)
(***************************************************************************)
\* the pages from page i on that have no text layer, in ascending order
RECURSIVE BlankPagesFrom(_, _)
BlankPagesFrom(pages, i) ==
  IF i > Len(pages) THEN <<>>
  ELSE IF IsBlank(pages[i]) THEN <<i>> \o BlankPagesFrom(pages, i + 1)
  ELSE BlankPagesFrom(pages, i + 1)

\* a PDF extraction with OCR enabled and PyMuPDF available
PdfOcrCall == PdfCall /\ req.use_ocr /\ has_pymupdf

\* the PyMuPDF strategy ended without an exception
PrimaryCompleted ==
  \/ Logged("Successfully extracted text from PDF using PyMuPDF")
  \/ Logged("No text extracted with PyMuPDF")

Initialized == res.op = "initialize_easyocr" /\ res.ret # None

\* the code a request's language is normalized to: the entry of the table,
\* or the code itself when the table has none
Normalized(lang) ==
  CASE lang = "eng" -> "en" [] lang = "fra" -> "fr" [] lang = "deu" -> "de"
    [] lang = "spa" -> "es" [] lang = "ita" -> "it" [] lang = "por" -> "pt"
    [] lang = "chi_sim" -> "ch_sim" [] lang = "jpn" -> "ja" [] lang = "kor" -> "ko"
    [] OTHER -> lang

\* C26: after every successful initialize_easyocr call of a sequence, the
\* shared reader is loaded for the normalized language of that (most recent)
\* request; the call created a reader exactly when none existed before it or
\* the loaded language differed from the normalized one requested, and
\* otherwise returned the reader that was there.
C26_ReaderFollowsRequest ==
  Initialized =>
    /\ easyocr_reader = Normalized(req.lang)
    /\ res.ret = easyocr_reader
    /\ res.created <=> (res.before = None \/ res.before # Normalized(req.lang))
    /\ ~res.created => easyocr_reader = res.before

\* the third call of a sequence asks for "eng" while the reader is loaded
\* for "en": the reader is reused
C26_Witness ==
  /\ Initialized /\ req.n = MaxInits /\ req.lang = "eng"
  /\ res.before = "en" /\ ~res.created /\ easyocr_reader = "en"

\* a call asks for a code outside the table while another language is loaded
C26_WitnessRecreated ==
  /\ Initialized /\ req.n > 1 /\ req.lang = "la"
  /\ res.before = "fr" /\ res.created /\ easyocr_reader = "la"

(***************************************************************************)
(* C27: every tag of the classifier is routed                              *)
(***************************************************************************)
\* the call was made without a file_type, so the tag is detect_file_type's
AutoDetected == Extracted /\ ~Supplied

UnsupportedMarker == res.text = "[Unsupported file type: " \o res.tag \o "]"

\* the tags detect_file_type returns for a content type (lines 131-142)
CoarseTags == {"image", "text", "pdf", "doc", "ppt", "xls"}

\* the tags of the supported-format table are routed to an extractor
ExtensionTagsRouted ==
  (AutoDetected /\ res.tag \in SupportedExtensions) => Len(res.entered) = 1

\* C27: when the type is auto-detected, every tag other than "unknown" (a
\* supported extension or one of the coarse tags image, text, pdf, doc, ppt,
\* xls) enters a format extractor, and the "[Unsupported file type: ...]"
\* marker is returned only for the tag "unknown".
C27_ClassifiedTagsRouted ==
  AutoDetected =>
    /\ res.tag # "unknown" => Len(res.entered) = 1
    /\ UnsupportedMarker => res.tag = "unknown"

(***************************************************************************)
(* C28: the declared tag and the extension of the path                     *)
(***************************************************************************)
\* the call attempted the strategies of r and ended with r's text
SameAttempts(r) == res.tried = r.tried /\ res.text = r.text

\* the same request on a path whose extension is the normalized tag
OnMatchingPath ==
  extract_text_from_file("f." \o res.tag, req.file_type, req.f, OcrOptions, None)

\* C28: a call with a declared tag docx, doc, pptx or ppt attempts the
\* strategies, and returns the text, of the same call made on a path whose
\* extension is that tag: the extension of file_path does not matter.
C28_TagAloneDecides ==
  ((Entered("doc") \/ Entered("ppt")) /\ Supplied) => SameAttempts(OnMatchingPath)

(***************************************************************************)
(* C29: binarization for every threshold of the range                      *)
(***************************************************************************)
\* enhance and grayscale are on and a threshold is given
ThresholdSet ==
  /\ Get(InForce, "enhance", FALSE)
  /\ Get(InForce, "grayscale", TRUE)
  /\ "threshold" \in DOMAIN InForce

\* the transforms that come before the threshold
StepsBeforeThreshold == SelectSeq(res.steps, LAMBDA st : StepRank(st) < 4)

\* the grayscale image the threshold is applied to
Thresholded(img) == Binarize(img, InForce.threshold)

\* C29: with enhance and grayscale on and a threshold of 0..255 given, the
\* returned image holds no pixel value other than 0 and 255, and without
\* noise reduction it is the grayscale image with each pixel above the
\* threshold set to 255 and every other pixel set to 0.
C29_ThresholdBinarizes ==
  (Processed /\ ThresholdSet) =>
    /\ InForce.threshold \in 0..255
    /\ Bimodal(res.out)
    /\ ~Get(InForce, "noise_reduction", TRUE)
         => res.out = Thresholded(RunSteps(StepsBeforeThreshold, req.o.img, InForce))

\* the same for the thresholds other than 0
BinarizesAboveZero ==
  (Processed /\ ThresholdSet /\ InForce.threshold # 0) =>
    /\ Bimodal(res.out)
    /\ ~Get(InForce, "noise_reduction", TRUE)
         => res.out = Thresholded(RunSteps(StepsBeforeThreshold, req.o.img, InForce))

(***************************************************************************)
(* C30: the results of a batch                                             *)
(***************************************************************************)
BatchExtracted == res.op = "batch_extract"

\* C30: batch_extract on distinct paths returns as many entries as there
\* are paths, and the entry of each path is the result of that path; two
\* paths with the same file name in different directories do not overwrite
\* each other.
C30_OneEntryPerPath ==
  BatchExtracted =>
    /\ Cardinality(DOMAIN res.results) = Len(req.file_paths)
    /\ \A i \in DOMAIN req.file_paths :
         /\ Basename(req.file_paths[i]) \in DOMAIN res.results
         /\ res.results[Basename(req.file_paths[i])] = res.each[i]

\* the same for batches whose file names are all different
DistinctNamesKept ==
  (BatchExtracted /\ \A i, j \in DOMAIN req.file_paths :
                       i # j => Basename(req.file_paths[i]) # Basename(req.file_paths[j])) =>
    /\ Cardinality(DOMAIN res.results) = Len(req.file_paths)
    /\ \A i \in DOMAIN req.file_paths :
         res.results[Basename(req.file_paths[i])] = res.each[i]

====
